---- MODULE Spec2Model ----
(***************************************************************************)
(* Verification model of dtorrero/newmetalbums.                            *)
(*                                                                         *)
(*   - the media cache        (youtube_cache_manager.py)                   *)
(*   - the download manager   (youtube_download_manager.py)                *)
(*   - the scrape single-flight of the HTTP service (web_server.py)        *)
(*   - the playlist tables    (db_manager.py)                              *)
(*                                                                         *)
(* Sizes are counted in units of 10 MiB, so the 10 MiB estimate that the   *)
(* download manager passes to cleanup_if_needed is one unit.  Time is a    *)
(* logical clock `now` (datetime.utcnow()) that the environment advances.  *)
(***************************************************************************)
EXTENDS Integers, Sequences, FiniteSets, TLC

VARIABLES
    \* ---- YouTubeCacheManager
    metadata,          \* self.metadata: dict in insertion order, a sequence of
                       \*   [id, la] (la = last_accessed; size_bytes is never read)
    files,             \* the cache directory: id -> size of the file, 0 = no file
    max_size,          \* self.max_size_bytes
    now,               \* datetime.utcnow()
    last_cleanup,      \* history: the cleanup_if_needed call made by the last step
    \* ---- YouTubeDownloadManager
    tasks,             \* every DownloadTask object created so far
    active_downloads,  \* self.active_downloads: id -> index in tasks, 0 = absent
    download_queue,    \* self.download_queue: sequence of indexes in tasks
    wpc,               \* position of each _download_worker
    wtask,             \* the task each worker holds, 0 = none
    total_downloads,
    successful_downloads,
    failed_downloads,
    failed_counted,    \* history: per task, how often failed_downloads counted it
    \* ---- scrape endpoints of web_server.py
    scraping_status,   \* the global dict: is_running, should_stop, rate_limited,
                       \*   total, error
    scraping_lock,     \* asyncio.Lock: the run that holds it, 0 = free
    runs,              \* the background tasks add_task has scheduled
    db_dates,          \* the release dates that have album rows
    last_response,     \* history: status code of the last admin request
    run_report,        \* history of the run that started last: the albums its
                       \*   scrape returned, whether a listing page failed, the
                       \*   album rows it wrote
    \* ---- playlist tables of db_manager.py
    playlists,         \* ids of the rows of table playlists
    playlist_items,    \* rows of table playlist_items: [id, playlist_id, position]
    next_playlist_id,  \* AUTOINCREMENT sequences
    next_item_id,
    last_reorder,      \* history: the reorder request made by the last step and
                       \*   the rows it found
    \* ---- album tables of db_manager.py
    albums,            \* rows of table albums: [album_id, release_date,
                       \*   youtube_embed_url, bandcamp_embed_url, playable_verified]
    tracks,            \* table tracks: album_id -> track numbers of its rows, in
                       \*   insertion order
    last_persist,      \* history: the album list the last step ingested and the
                       \*   tables it left
    last_delete,       \* history: the delete by date the last step made, the
                       \*   tables it found and the number it returned
    parsed_genres,     \* rows of table parsed_genres: [album_id, genre_name]
    genre_stats,       \* rows of table genre_stats: [genre_name, album_count]
    \* ---- table admin_auth of auth_manager.py
    admin_set,         \* the table has the admin's row
    login_attempts,    \* its column login_attempts
    locked_until,      \* its column locked_until, in minutes; 0 = NULL
    auth_now,          \* datetime.utcnow(), in minutes
    last_login,        \* history: the answer to the last login request
    \* ---- GET /api/youtube/audio of web_server.py
    audio_response,    \* history: the answer to the last audio request
    \* ---- DailyOrchestrator in scheduler mode (daily_orchestrator.py)
    orch_now,          \* the wall clock in half days: an even tick is a day before
                       \*   its daily time, the odd tick after it the same day from
                       \*   the daily time on
    orch_pc,           \* "boot", "idle" (the polling loop), "running"
    last_run_date,     \* self.last_run_date, 0 = None
    next_run,          \* the tick the scheduled job is due at
    orch_runs,         \* history: the runs started: [day, at, trigger, result]
    \* ---- DailyOrchestrator in range mode (daily_orchestrator.py main)
    range_pc,          \* "cli", "running" (inside run_date_range), "exited"
    start_date,        \* args.start_date, 0 before the arguments are read
    end_date,          \* args.end_date
    current_date,      \* the loop variable of run_date_range
    results,           \* the list run_date_range builds: [date, success]
    exit_code,         \* what main returned, -1 while it has not
    exit_by,           \* history: the return main left by
    \* ---- the concurrency cap of YouTubeDownloadManager
    max_parallel,      \* self.max_parallel
    semaphores,        \* the asyncio.Semaphore objects created so far: the free
                       \*   permits of each
    download_semaphore,\* self.download_semaphore: index in semaphores
    wsem,              \* the semaphore each worker waits for or holds, 0 = none
    \* ---- table settings of db_manager.py, PUT /api/admin/settings/cache
    stored_settings,   \* key -> stored value, Absent = no row
    last_update,       \* history: the answer to the last settings update and
                       \*   whether it changed anything
    download_timeout,  \* self.download_timeout of the download manager
    run_timeout,       \* per worker: the timeout of the asyncio.wait_for it is in,
                       \*   None outside _execute_download
    \* ---- player settings and GET /api/playlist/dynamic of web_server.py
    player_settings,   \* the rows player_youtube_enabled, player_bandcamp_enabled
                       \*   of table settings: "none" (no row), "on", "off"
    last_playlist,     \* history: the last dynamic playlist returned
    \* ---- YouTubeDownloadManager.download_playlist and the queue it fills
    pd_cached,         \* the ids get_cached_file finds a file for
    pd_active,         \* the keys of self.active_downloads
    pd_queue,          \* self.download_queue, the video ids of its tasks
    pd_taken,          \* history: the ids workers got since the last playlist call
    pd_call,           \* history: the last download_playlist call and the
                       \*   number of tasks it found waiting, if its index was
                       \*   inside the list and no id was cached or pending
    \* ---- MetalArchivesScraper._navigate_to_url
    nav_pc,            \* "idle", "goto" (an invocation is at page.goto), "sleep"
                       \*   (it sleeps before it calls itself), "returned"
    nav_retry,         \* the retry argument of the running invocation
    nav_attempts,      \* history: the page.goto calls of this navigation
    nav_sleep,         \* the sleep under way: [cause, seconds]
    nav_result,        \* what the navigation returned: "none", "content", "None"
    \* ---- BatchVerifier.verify_album
    last_verify,       \* history: the last verify_album call
    last_score,        \* history: the last candidate scored by the video search
    va_pc,             \* verify_album: "idle", "try", "db", "restart", "returned"
    va_attempt,        \* the loop variable attempt
    va_result,         \* result: [youtube, success, error]
    va_tries,          \* history: the passes through the try block for this album
    vb_done,           \* verify_albums_batch: the albums whose result is appended
    \* ---- POST /api/admin/scrape
    last_trigger       \* history: the scrape request answered by the last step

cacheVars == <<metadata, files, max_size, now, last_cleanup>>
dlVars == <<tasks, active_downloads, download_queue, wpc, wtask,
            total_downloads, successful_downloads, failed_downloads, failed_counted>>
scVars == <<scraping_status, scraping_lock, runs, db_dates, last_response, run_report>>
plVars == <<playlists, playlist_items, next_playlist_id, next_item_id, last_reorder>>
stVars == <<albums, tracks, last_persist, last_delete>>
gnVars == <<parsed_genres, genre_stats>>
auVars == <<admin_set, login_attempts, locked_until, auth_now, last_login>>
adVars == <<audio_response>>
orVars == <<orch_now, orch_pc, last_run_date, next_run, orch_runs>>
rgVars == <<range_pc, start_date, end_date, current_date, results, exit_code, exit_by>>
mpVars == <<max_parallel, semaphores, download_semaphore, wsem>>
seVars == <<stored_settings, last_update, download_timeout, run_timeout>>
dyVars == <<player_settings, last_playlist>>
pdVars == <<pd_cached, pd_active, pd_queue, pd_taken, pd_call>>
nvVars == <<nav_pc, nav_retry, nav_attempts, nav_sleep, nav_result>>
vfVars == <<last_verify, last_score, va_pc, va_attempt, va_result, va_tries, vb_done>>
tgVars == <<last_trigger>>
restVars == <<stVars, gnVars, auVars, adVars, orVars, rgVars, mpVars, seVars, dyVars, pdVars, nvVars, vfVars, tgVars>>
vars == <<cacheVars, dlVars, scVars, plVars, restVars>>

(***************************************************************************)
(* Bounds of the model                                                     *)
(***************************************************************************)
VideoIds == {"A", "B", "C"}     \* ids known to the cache
DlIds == {"A", "B"}             \* ids requested from the download manager
Sizes == {1, 2}                 \* sizes of downloaded files (10 MiB, 20 MiB)
Quotas == {2, 3}                \* cache quotas an administrator configures
MaxClock == 2                   \* the clock stops advancing here
MaxTasks == 2                   \* DownloadTask objects created per run
Workers == {1, 2}               \* the worker tasks start_workers creates
Dates == {"d1", "d2"}           \* dates a scrape is requested for
MaxRuns == 2                    \* scrape requests accepted per run of the server
MaxAlbums == 1                  \* albums the source lists for a date
MaxPlaylists == 1               \* playlists created
MaxItems == 3                   \* playlist items created
MaxReorder == 2                 \* length of a reorder request's id list
AlbumIds == {"a1", "a2"}        \* album identifiers the source lists
ReleaseDates == {1, 2}          \* release days, in calendar order
TrackLists == {<<1, 2>>, <<1, 1>>}  \* track numbers of a scraped tracklist
MaxList == 2                    \* albums in one scraped list
Genres == {"g1", "g2"}          \* genre names the parser yields
MaxMinutes == 17                \* minutes the login clock runs
MaxFailures == 7                \* failed logins recorded
MaxTicks == 5                   \* half days the scheduler's clock runs
MaxDay == 4                     \* the days a date range is taken from are 1..MaxDay
MaxSemaphores == 3              \* Semaphore objects the manager creates
Tracks == <<"A", "B", "C", "D", "E">>  \* the video ids playlists are made of
SizeValues == {0, 3, 100, 101}  \* youtube_cache_max_size_gb of a request
ParallelValues == {0, 1, 2, 11} \* youtube_parallel_downloads of a request
TimeoutValues == {59, 60, 601}  \* youtube_download_timeout of a request
PostScrapeValues == {0, 10, 11} \* youtube_post_scrape_downloads of a request

(***************************************************************************)
(* Program constants                                                       *)
(***************************************************************************)
Estimate == 1                   \* 10 * 1024 * 1024 bytes
DefaultMaxAttempts == 3         \* DownloadTask.max_attempts

None == 0
LockThreshold == 5              \* if new_attempts >= 5
LockMinutes == 15               \* timedelta(minutes=15)
Absent == -1                    \* a key that is not in a dict, a row that is not stored
SettingKeys == {"youtube_cache_max_size_gb", "youtube_parallel_downloads",
                "youtube_download_timeout", "youtube_post_scrape_downloads"}
MaxCacheGb == 100               \* new_size > 100
MinParallel == 1                \* max(1, ...), new_parallel < 1
MaxParallel == 10               \* min(10, ...), new_parallel > 10
MinTimeout == 60                \* new_timeout < 60
MaxTimeout == 600               \* new_timeout > 600

(***************************************************************************)
(* YouTubeCacheManager                                                     *)
(***************************************************************************)
MetaIds(m) == {m[i].id : i \in DOMAIN m}

MetaIndex(m, v) == CHOOSE i \in DOMAIN m : m[i].id = v

RemoveAt(m, i) == SubSeq(m, 1, i - 1) \o SubSeq(m, i + 1, Len(m))

\* del self.metadata[video_id]
MetaDel(m, v) == IF v \in MetaIds(m) THEN RemoveAt(m, MetaIndex(m, v)) ELSE m

RECURSIVE SumSizes(_, _, _)
SumSizes(m, f, n) == IF n = 0 THEN 0 ELSE SumSizes(m, f, n - 1) + f[m[n].id]

\* get_total_size: the sum of the sizes on disk.  An entry whose file is
\* missing is deleted from the dict while the dict is being iterated, which
\* makes the next iteration step raise RuntimeError; the first such entry is
\* gone by then and _save_metadata is not reached.
get_total_size(m, f) ==
    LET missing == {i \in DOMAIN m : f[m[i].id] = 0}
        first == CHOOSE i \in missing : \A j \in missing : i <= j
    IN  IF missing = {}
        THEN [raised |-> FALSE, meta |-> m, total |-> SumSizes(m, f, Len(m))]
        ELSE [raised |-> TRUE, meta |-> RemoveAt(m, first), total |-> 0]

\* list.sort is stable: an entry goes behind those with the same key
InsertByAccess(s, e) ==
    LET k == Cardinality({i \in DOMAIN s : s[i].la <= e.la})
    IN  SubSeq(s, 1, k) \o <<e>> \o SubSeq(s, k + 1, Len(s))

RECURSIVE SortByAccess(_, _)
SortByAccess(m, n) ==
    IF n = 0 THEN <<>> ELSE InsertByAccess(SortByAccess(m, n - 1), m[n])

\* a cache that evicts in dict order (the sort left out)
get_lru_files_unsorted(m) == m

\* a cache that sorts newest first
RECURSIVE Reverse(_)
Reverse(s) == IF s = <<>> THEN <<>> ELSE Append(Reverse(Tail(s)), Head(s))

get_lru_files_newest_first(m) == Reverse(SortByAccess(m, Len(m)))

\* _get_lru_files: the entries sorted by last_accessed, oldest first
get_lru_files(m) == SortByAccess(m, Len(m))

\* the for loop of cleanup_if_needed over lru, from index i
RECURSIVE EvictLoop(_, _, _, _, _, _, _)
EvictLoop(lru, i, cur, target, m, f, ev) ==
    IF i > Len(lru) \/ cur <= target
    THEN [meta |-> m, files |-> f, evicted |-> ev]
    ELSE LET id == lru[i].id
         IN  IF f[id] > 0
             THEN EvictLoop(lru, i + 1, cur - f[id], target, MetaDel(m, id),
                            [f EXCEPT ![id] = 0], Append(ev, id))
             ELSE EvictLoop(lru, i + 1, cur, target, MetaDel(m, id), f, ev)

cleanup_if_needed(m, f, quota, est) ==
    LET ts == get_total_size(m, f)
    IN  IF ts.raised
        THEN [raised |-> TRUE, meta |-> ts.meta, files |-> f, evicted |-> <<>>]
        ELSE IF ts.total + est <= quota
        THEN [raised |-> FALSE, meta |-> m, files |-> f, evicted |-> <<>>]
        ELSE LET r == EvictLoop(get_lru_files(m), 1, ts.total, quota - est, m, f, <<>>)
             IN  [raised |-> FALSE, meta |-> r.meta, files |-> r.files,
                  evicted |-> r.evicted]

mark_accessed(m, v, t) ==
    IF v \in MetaIds(m) THEN [m EXCEPT ![MetaIndex(m, v)].la = t] ELSE m

\* self.metadata[video_id] = {...}: an existing key keeps its place in the dict
add_file(m, v, size, t) ==
    LET e == [id |-> v, la |-> t]
    IN  IF v \in MetaIds(m) THEN [m EXCEPT ![MetaIndex(m, v)] = e] ELSE Append(m, e)

get_cached_file(m, f, v, t) ==
    IF v \in MetaIds(m)
    THEN IF f[v] > 0
         THEN [found |-> TRUE, meta |-> mark_accessed(m, v, t)]
         ELSE [found |-> FALSE, meta |-> MetaDel(m, v)]
    ELSE [found |-> FALSE, meta |-> m]

NoCleanup == [called |-> FALSE]

CleanupRecord(m, f, quota, est, c) ==
    [called |-> TRUE, pre |-> m, prefiles |-> f, quota |-> quota, est |-> est,
     raised |-> c.raised, evicted |-> c.evicted]

TotalSize == SumSizes(metadata, files, Len(metadata))

----------------------------------------------------------------------------
InitCache ==
    /\ metadata = <<>>
    /\ files = [v \in VideoIds |-> 0]
    /\ max_size \in Quotas
    /\ now = 0
    /\ last_cleanup = NoCleanup

InitDl ==
    /\ tasks = <<>>
    /\ active_downloads = [v \in DlIds |-> None]
    /\ download_queue = <<>>
    /\ wpc = [w \in Workers |-> "idle"]
    /\ wtask = [w \in Workers |-> None]
    /\ total_downloads = 0
    /\ successful_downloads = 0
    /\ failed_downloads = 0
    /\ failed_counted = <<>>

NoReport == [n |-> 0, failed |-> FALSE, wrote |-> 0]

InitScrape ==
    /\ scraping_status = [is_running |-> FALSE, should_stop |-> FALSE,
                          rate_limited |-> FALSE, total |-> 0, error |-> "none"]
    /\ scraping_lock = None
    /\ runs = <<>>
    /\ db_dates = {}
    /\ last_response = 0
    /\ run_report = NoReport

InitPlaylists ==
    /\ playlists = {}
    /\ playlist_items = {}
    /\ next_playlist_id = 1
    /\ next_item_id = 1
    /\ last_reorder = [called |-> FALSE]

InitStore ==
    /\ albums = {}
    /\ tracks = [a \in AlbumIds |-> <<>>]
    /\ last_persist = [called |-> FALSE]
    /\ last_delete = [called |-> FALSE]
    /\ parsed_genres = {}
    /\ genre_stats = {}

InitAuth ==
    /\ admin_set = FALSE
    /\ login_attempts = 0
    /\ locked_until = None
    /\ auth_now = 0
    /\ last_login = [status |-> 0, token |-> FALSE]

InitAudio == audio_response = [status |-> 0]

InitScheduler ==
    /\ orch_now = 0
    /\ orch_pc = "boot"
    /\ last_run_date = None
    /\ next_run = None
    /\ orch_runs = <<>>

\* the manager is built with one permit per worker and start_workers creates
\* max_parallel workers
InitParallel ==
    /\ max_parallel = Cardinality(Workers)
    /\ semaphores = <<Cardinality(Workers)>>
    /\ download_semaphore = 1
    /\ wsem = [w \in Workers |-> None]

DefaultDownloadTimeout == 300

InitSettings ==
    /\ stored_settings = [k \in SettingKeys |-> Absent]
    /\ last_update = [status |-> 0, changed |-> FALSE]
    /\ download_timeout = DefaultDownloadTimeout
    /\ run_timeout = [w \in Workers |-> None]

InitDynamic ==
    /\ player_settings = [youtube |-> "none", bandcamp |-> "none"]
    /\ last_playlist = [called |-> FALSE]

InitPlaylistDl ==
    /\ pd_cached = {}
    /\ pd_active = {}
    /\ pd_queue = <<>>
    /\ pd_taken = <<>>
    /\ pd_call = [called |-> FALSE]

InitRange ==
    /\ range_pc = "cli"
    /\ start_date = None
    /\ end_date = None
    /\ current_date = None
    /\ results = <<>>
    /\ exit_code = -1
    /\ exit_by = "none"

NoSleep == [cause |-> "none", seconds |-> 0]

InitNavigate ==
    /\ nav_pc = "idle"
    /\ nav_retry = 0
    /\ nav_attempts = 0
    /\ nav_sleep = NoSleep
    /\ nav_result = "none"

NoResult == [youtube |-> FALSE, success |-> FALSE, error |-> FALSE]
vaVars == <<va_pc, va_attempt, va_result, va_tries, vb_done>>

InitVerify ==
    /\ last_verify = [called |-> FALSE]
    /\ last_score = [called |-> FALSE]
    /\ va_pc = "idle"
    /\ va_attempt = 0
    /\ va_result = NoResult
    /\ va_tries = 0
    /\ vb_done = 0

NoTrigger == [called |-> FALSE]

InitTrigger == last_trigger = NoTrigger

Init ==
    /\ InitCache /\ InitDl /\ InitScrape /\ InitPlaylists /\ InitStore /\ InitAuth
    /\ InitAudio /\ InitScheduler /\ InitRange
    /\ InitParallel /\ InitSettings /\ InitDynamic /\ InitPlaylistDl
    /\ InitNavigate /\ InitVerify /\ InitTrigger

\* time passes.  The clock is read only to stamp last_accessed, so an instant
\* that stamped nothing is not told apart from the next one
Tick ==
    /\ now < MaxClock
    /\ \E i \in DOMAIN metadata : metadata[i].la = now
    /\ now' = now + 1
    /\ last_cleanup' = NoCleanup
    /\ UNCHANGED <<metadata, files, max_size>>

\* YouTubeCacheManager.add_file, for the file a download has written
AddFile(v, size) ==
    /\ files' = [files EXCEPT ![v] = size]
    /\ metadata' = add_file(metadata, v, size, now)
    /\ last_cleanup' = NoCleanup
    /\ UNCHANGED <<max_size, now>>

\* YouTubeCacheManager.get_cached_file
Lookup(v) ==
    /\ metadata' = get_cached_file(metadata, files, v, now).meta
    /\ last_cleanup' = NoCleanup
    /\ UNCHANGED <<files, max_size, now>>

\* YouTubeCacheManager.cleanup_if_needed
MakeRoom(est) ==
    LET c == cleanup_if_needed(metadata, files, max_size, est)
    IN  /\ metadata' = c.meta
        /\ files' = c.files
        /\ last_cleanup' = CleanupRecord(metadata, files, max_size, est, c)
        /\ UNCHANGED <<max_size, now>>

\* YouTubeCacheManager.update_max_size
UpdateMaxSize(q) ==
    /\ max_size' = q
    /\ IF q < max_size
       THEN LET c == cleanup_if_needed(metadata, files, q, 0)
            IN  /\ metadata' = c.meta
                /\ files' = c.files
                /\ last_cleanup' = CleanupRecord(metadata, files, q, 0, c)
       ELSE /\ last_cleanup' = NoCleanup
            /\ UNCHANGED <<metadata, files>>
    /\ UNCHANGED now

\* failed_file.unlink() of _execute_download's error path: the file of the id
\* goes, whatever the cache metadata says
UnlinkFailed(v) ==
    /\ files[v] > 0
    /\ files' = [files EXCEPT ![v] = 0]
    /\ last_cleanup' = NoCleanup
    /\ UNCHANGED <<metadata, max_size, now>>

NextCache ==
    \/ Tick /\ UNCHANGED <<dlVars, scVars, plVars, restVars>>
    \/ \E v \in VideoIds, s \in Sizes : AddFile(v, s) /\ UNCHANGED <<dlVars, scVars, plVars, restVars>>
    \/ \E v \in VideoIds : Lookup(v) /\ UNCHANGED <<dlVars, scVars, plVars, restVars>>
    \/ \E est \in {0, Estimate} : MakeRoom(est) /\ UNCHANGED <<dlVars, scVars, plVars, restVars>>
    \/ \E q \in Quotas : UpdateMaxSize(q) /\ UNCHANGED <<dlVars, scVars, plVars, restVars>>
    \/ \E v \in VideoIds : UnlinkFailed(v) /\ UNCHANGED <<dlVars, scVars, plVars, restVars>>

SpecCache == Init /\ [][NextCache]_vars

(***************************************************************************)
(* YouTubeDownloadManager                                                  *)
(***************************************************************************)
\* DownloadTask(video_id=..., video_url=..., cache_file=...)
NewTask(v) ==
    [video_id |-> v, status |-> "queued", attempts |-> 0,
     max_attempts |-> DefaultMaxAttempts]

\* "if task.attempts < task.max_attempts" taken as <=
attempts_remain_off_by_one(t) == t.attempts <= t.max_attempts

\* if task.attempts < task.max_attempts: the task is put back on the queue
attempts_remain(t) == t.attempts < t.max_attempts

\* finally: if task.video_id in self.active_downloads: del ...
Finally(v) == [active_downloads EXCEPT ![v] = None]

\* the failure counters of _execute_download, for task t
CountFailure(t) ==
    /\ total_downloads' = total_downloads + 1
    /\ failed_downloads' = failed_downloads + 1
    /\ failed_counted' = [failed_counted EXCEPT ![t] = @ + 1]
    /\ UNCHANGED successful_downloads

NoCount ==
    UNCHANGED <<total_downloads, successful_downloads, failed_downloads, failed_counted>>

\* the worker is back at the top of its loop
WorkerIdle(w) ==
    /\ wpc' = [wpc EXCEPT ![w] = "idle"]
    /\ wtask' = [wtask EXCEPT ![w] = None]

\* except Exception of _execute_download, entered by worker w with the task
\* list tk and the cache (m, f): FAILED, the files of the id are unlinked, then
\* either the backoff sleep or the failure counters and the finally clause
ExceptException(w, tk, m, f) ==
    LET t == wtask[w]
        v == tk[t].video_id
    IN  /\ tasks' = [tk EXCEPT ![t].status = "failed"]
        /\ metadata' = m
        /\ files' = [f EXCEPT ![v] = 0]
        /\ IF attempts_remain(tk[t])
           THEN /\ wpc' = [wpc EXCEPT ![w] = "backoff"]
                /\ NoCount
                /\ UNCHANGED <<wtask, active_downloads, download_queue>>
           ELSE /\ CountFailure(t)
                /\ active_downloads' = Finally(v)
                /\ WorkerIdle(w)
                /\ UNCHANGED download_queue

\* download_video(video_id)
DownloadVideo(v) ==
    LET r == get_cached_file(metadata, files, v, now)
        t == Len(tasks) + 1
    IN  /\ metadata' = r.meta
        /\ last_cleanup' = NoCleanup
        /\ IF r.found \/ active_downloads[v] # None
           THEN UNCHANGED <<tasks, active_downloads, download_queue, failed_counted>>
           ELSE /\ Len(tasks) < MaxTasks
                /\ tasks' = Append(tasks, NewTask(v))
                /\ failed_counted' = Append(failed_counted, 0)
                /\ active_downloads' = [active_downloads EXCEPT ![v] = t]
                /\ download_queue' = Append(download_queue, t)
        /\ UNCHANGED <<files, max_size, now, wpc, wtask, total_downloads,
                       successful_downloads, failed_downloads>>

\* _download_worker: task = await self.download_queue.get()
WorkerGet(w) ==
    /\ wpc[w] = "idle"
    /\ download_queue # <<>>
    /\ wtask' = [wtask EXCEPT ![w] = Head(download_queue)]
    /\ download_queue' = Tail(download_queue)
    /\ wpc' = [wpc EXCEPT ![w] = "fetched"]
    /\ last_cleanup' = NoCleanup
    /\ NoCount
    /\ UNCHANGED <<metadata, files, max_size, now, tasks, active_downloads>>

\* _execute_download up to the await of the download thread
WorkerStart(w) ==
    LET t == wtask[w]
        tk == [tasks EXCEPT ![t].attempts = @ + 1, ![t].status = "downloading"]
        c == cleanup_if_needed(metadata, files, max_size, Estimate)
    IN  /\ wpc[w] = "fetched"
        /\ last_cleanup' = CleanupRecord(metadata, files, max_size, Estimate, c)
        /\ IF c.raised
           THEN ExceptException(w, tk, c.meta, c.files)
           ELSE /\ tasks' = tk
                /\ metadata' = c.meta
                /\ files' = c.files
                /\ wpc' = [wpc EXCEPT ![w] = "downloading"]
                /\ NoCount
                /\ UNCHANGED <<wtask, active_downloads, download_queue>>
        /\ UNCHANGED <<max_size, now>>

\* the download thread returned a non-empty file of the given size
DownloadSucceed(w, size) ==
    LET t == wtask[w]
        v == tasks[t].video_id
    IN  /\ wpc[w] = "downloading"
        /\ files' = [files EXCEPT ![v] = size]
        /\ metadata' = add_file(metadata, v, size, now)
        /\ tasks' = [tasks EXCEPT ![t].status = "completed"]
        /\ total_downloads' = total_downloads + 1
        /\ successful_downloads' = successful_downloads + 1
        /\ active_downloads' = Finally(v)
        /\ WorkerIdle(w)
        /\ last_cleanup' = NoCleanup
        /\ UNCHANGED <<max_size, now, download_queue, failed_downloads, failed_counted>>

\* the download raised, or left no file, or an empty one
DownloadError(w) ==
    /\ wpc[w] = "downloading"
    /\ ExceptException(w, tasks, metadata, files)
    /\ last_cleanup' = NoCleanup
    /\ UNCHANGED <<max_size, now>>

\* except asyncio.TimeoutError
DownloadTimeout(w) ==
    LET t == wtask[w]
        v == tasks[t].video_id
    IN  /\ wpc[w] = "downloading"
        /\ tasks' = [tasks EXCEPT ![t].status = "failed"]
        /\ IF attempts_remain(tasks[t])
           THEN /\ download_queue' = Append(download_queue, t)
                /\ NoCount
           ELSE /\ CountFailure(t)
                /\ UNCHANGED download_queue
        /\ active_downloads' = Finally(v)
        /\ WorkerIdle(w)
        /\ last_cleanup' = NoCleanup
        /\ UNCHANGED <<metadata, files, max_size, now>>

\* the backoff sleep is over: the task is put back and the finally clause runs
BackoffDone(w) ==
    LET t == wtask[w]
        v == tasks[t].video_id
    IN  /\ wpc[w] = "backoff"
        /\ download_queue' = Append(download_queue, t)
        /\ active_downloads' = Finally(v)
        /\ WorkerIdle(w)
        /\ last_cleanup' = NoCleanup
        /\ NoCount
        /\ UNCHANGED <<metadata, files, max_size, now, tasks>>

NextDl ==
    \/ Tick /\ UNCHANGED <<dlVars, scVars, plVars, restVars>>
    \/ \E v \in DlIds : DownloadVideo(v) /\ UNCHANGED <<scVars, plVars, restVars>>
    \/ \E w \in Workers : WorkerGet(w) /\ UNCHANGED <<scVars, plVars, restVars>>
    \/ \E w \in Workers : WorkerStart(w) /\ UNCHANGED <<scVars, plVars, restVars>>
    \/ \E w \in Workers, s \in Sizes : DownloadSucceed(w, s) /\ UNCHANGED <<scVars, plVars, restVars>>
    \/ \E w \in Workers : DownloadError(w) /\ UNCHANGED <<scVars, plVars, restVars>>
    \/ \E w \in Workers : DownloadTimeout(w) /\ UNCHANGED <<scVars, plVars, restVars>>
    \/ \E w \in Workers : BackoffDone(w) /\ UNCHANGED <<scVars, plVars, restVars>>

SpecDl == Init /\ [][NextDl]_vars

(***************************************************************************)
(* Properties of the media cache                                           *)
(***************************************************************************)
LaOf(m, v) == m[MetaIndex(m, v)].la

SeqSet(s) == {s[i] : i \in DOMAIN s}

\* bytes freed by the first k evictions of the recorded cleanup
RECURSIVE Freed(_, _, _)
Freed(f, ev, k) == IF k = 0 THEN 0 ELSE Freed(f, ev, k - 1) + f[ev[k]]

\* the entries of m whose id is in keep, in m's order
RECURSIVE Restrict(_, _)
Restrict(m, keep) ==
    IF m = <<>> THEN <<>>
    ELSE IF Head(m).id \in keep THEN <<Head(m)>> \o Restrict(Tail(m), keep)
         ELSE Restrict(Tail(m), keep)

\* the ids with the smallest last_accessed
Oldest(m) == {m[i].id : i \in {j \in DOMAIN m : \A k \in DOMAIN m : m[j].la <= m[k].la}}

\* among them, the one that comes first in the dict
OldestFirst(m) ==
    m[CHOOSE i \in DOMAIN m :
        /\ m[i].id \in Oldest(m)
        /\ \A j \in DOMAIN m : m[j].id \in Oldest(m) => i <= j].id

CleanupDone == last_cleanup.called /\ ~last_cleanup.raised

\* C6: cleanup_if_needed evicts in ascending last_accessed order: every evicted
\* entry is at most as recently accessed as every retained one, the evictions
\* come oldest first, each eviction is made only while current_size + estimate
\* still exceeds the quota, eviction goes on until it fits (or nothing is
\* left), nothing is evicted when it already fits, and the retained entries
\* are left as they were.
C6_LruEviction ==
    CleanupDone =>
        LET pre == last_cleanup.pre
            f == last_cleanup.prefiles
            ev == last_cleanup.evicted
            E == SeqSet(ev)
            R == MetaIds(pre) \ E
            total == SumSizes(pre, f, Len(pre))
            est == last_cleanup.est
            quota == last_cleanup.quota
        IN  /\ \A e \in E, r \in R : LaOf(pre, e) <= LaOf(pre, r)
            /\ \A i, j \in DOMAIN ev : i < j => LaOf(pre, ev[i]) <= LaOf(pre, ev[j])
            /\ \A k \in DOMAIN ev : total - Freed(f, ev, k - 1) + est > quota
            /\ R # {} => total - Freed(f, ev, Len(ev)) + est <= quota
            /\ total + est <= quota => ev = <<>>
            /\ metadata = Restrict(pre, R)
            /\ \A v \in VideoIds : files[v] = IF v \in E THEN 0 ELSE f[v]

\* C6 witness: three files fill the quota, the first admitted one was looked
\* up afterwards, and cleanup_if_needed(estimate) evicted exactly the second
C6_Witness ==
    /\ CleanupDone
    /\ Len(last_cleanup.pre) = 3
    /\ last_cleanup.est = Estimate
    /\ last_cleanup.pre[1].la > last_cleanup.pre[3].la
    /\ last_cleanup.pre[2].la < last_cleanup.pre[3].la
    /\ last_cleanup.evicted = <<last_cleanup.pre[2].id>>
    /\ MetaIds(metadata) = {last_cleanup.pre[1].id, last_cleanup.pre[3].id}

\* C7 as stated: after cleanup_if_needed, a file with the smallest
\* last_accessed among the files present before the call is retained or was
\* the last one the call evicted.
C7_OldestRetainedOrLastEvicted ==
    (CleanupDone /\ last_cleanup.pre # <<>>) =>
        LET ev == last_cleanup.evicted
        IN  \E v \in Oldest(last_cleanup.pre) :
                v \notin SeqSet(ev) \/ v = ev[Len(ev)]

\* C7 amended: after cleanup_if_needed, the file with the smallest
\* last_accessed among the files present before the call (the first of them in
\* the metadata when several share it) is retained or was the first one the
\* call evicted.
C7_OldestRetainedOrFirstEvicted ==
    (CleanupDone /\ last_cleanup.pre # <<>>) =>
        LET ev == last_cleanup.evicted
            v == OldestFirst(last_cleanup.pre)
        IN  v \notin SeqSet(ev) \/ v = ev[1]

\* C7 witness: a call that evicted two files, the oldest one first
C7_Witness ==
    /\ CleanupDone
    /\ Len(last_cleanup.evicted) = 2
    /\ last_cleanup.evicted[1] = OldestFirst(last_cleanup.pre)
    /\ LaOf(last_cleanup.pre, last_cleanup.evicted[1])
          < LaOf(last_cleanup.pre, last_cleanup.evicted[2])

(***************************************************************************)
(* Properties of the download manager                                      *)
(***************************************************************************)
TasksOf(v) == {t \in DOMAIN tasks : tasks[t].video_id = v}

\* the tasks waiting in the queue or held by a worker
Pending == SeqSet(download_queue) \cup {wtask[w] : w \in {x \in Workers : wtask[x] # None}}

\* C1: for every video id at most one task has status DOWNLOADING.
C1_AtMostOneDownloadingPerId ==
    \A v \in DlIds :
        Cardinality({t \in TasksOf(v) : tasks[t].status = "downloading"}) <= 1

\* C2: download(id) is idempotent per id: the queue and the tasks being
\* executed never hold two tasks for the same id.
C2_OnePendingTaskPerId ==
    \A v \in DlIds : Cardinality(TasksOf(v) \cap Pending) <= 1

\* the steps that admit a file or set the quota
AdmitOrSetQuota ==
    \/ \E w \in Workers, s \in Sizes : DownloadSucceed(w, s)
    \/ \E q \in Quotas : UpdateMaxSize(q) /\ UNCHANGED <<dlVars, scVars, plVars, restVars>>

\* C5: after every add_file and after every update_max_size the total size of
\* the cached files is at most the quota.
C5_QuotaAfterAdmit ==
    [][AdmitOrSetQuota => TotalSize' <= max_size']_vars

\* a status change the lifecycle allows; a start that fails before its first
\* await shows as one step from the old status to FAILED
LifecycleStep(old, new) ==
    \/ old.status = "queued" /\ new.status = "downloading"
    \/ old.status = "downloading" /\ new.status \in {"completed", "failed", "cancelled"}
    \/ old.status = "queued" /\ new.status = "failed" /\ new.attempts = old.attempts + 1
    \/ new.status = "queued" /\ new.attempts < new.max_attempts

\* C8: every status change of a task is QUEUED->DOWNLOADING,
\* DOWNLOADING->COMPLETED/FAILED/CANCELLED or a retry back to QUEUED, and a
\* task waiting in the queue has status QUEUED.
C8_TaskLifecycle ==
    [][/\ \A t \in DOMAIN tasks :
            tasks'[t].status # tasks[t].status => LifecycleStep(tasks[t], tasks'[t])
       /\ \A i \in DOMAIN download_queue' :
            tasks'[download_queue'[i]].status = "queued"]_vars

\* an attempt of task t ends in an error or a timeout in this step
AttemptFails(t) ==
    /\ tasks'[t].status = "failed"
    /\ \/ tasks[t].status = "downloading"
       \/ tasks'[t].attempts = tasks[t].attempts + 1

\* C9: a task is executed at most max_attempts times; when the attempt number
\* max_attempts fails the task ends FAILED, is not put back on the queue and
\* the failure counter counts it once, and it is never executed again.
C9_RetryBound ==
    [][\A t \in DOMAIN tasks :
        /\ tasks'[t].attempts <= tasks'[t].max_attempts
        /\ failed_counted'[t] <= 1
        /\ (AttemptFails(t) /\ tasks'[t].attempts = tasks'[t].max_attempts) =>
              /\ t \notin SeqSet(download_queue')
              /\ \A w \in Workers : wtask'[w] # t
              /\ failed_downloads' = failed_downloads + 1
              /\ failed_counted'[t] = failed_counted[t] + 1
        /\ (AttemptFails(t) /\ tasks'[t].attempts < tasks'[t].max_attempts) =>
              /\ failed_downloads' = failed_downloads
              /\ t \in SeqSet(download_queue') \/ \E w \in Workers : wtask'[w] = t
        /\ failed_counted[t] = 1 => tasks'[t] = tasks[t] /\ failed_counted'[t] = 1
      ]_vars

\* C9 witness: a task has used all its attempts and was counted as failed
C9_Witness ==
    \E t \in DOMAIN tasks :
        /\ tasks[t].status = "failed"
        /\ tasks[t].attempts = DefaultMaxAttempts
        /\ failed_counted[t] = 1
        /\ failed_downloads >= 1
        /\ t \notin Pending

(***************************************************************************)
(* Scrape endpoints and the background pipeline (web_server.py)            *)
(***************************************************************************)
\* a lock that is never seen as held
lock_free_always == TRUE

\* async with scraping_lock: the body is entered when the lock is free
lock_free == scraping_lock = None

\* if scraping_status["is_running"] or scraping_lock.locked()
scrape_in_progress == scraping_status.is_running \/ scraping_lock # None

\* what scraper.initialize() can do, as the except clause of the run tells it
InitOutcomes == {"ok", "error", "timeout"}

RunningPcs == {"init", "scraping", "cover", "closing", "verifying", "queueing", "failing"}

SetPc(r, pc) == [runs EXCEPT ![r].pc = pc]

\* POST /api/admin/scrape without the test of check_date_exists
TriggerScrapeAnyDate(d, covers, force) ==
    /\ IF scrape_in_progress
       THEN /\ last_response' = 409
            /\ UNCHANGED runs
       ELSE /\ Len(runs) < MaxRuns
            /\ runs' = Append(runs, [date |-> d, covers |-> covers, pc |-> "scheduled",
                                     n |-> 0, i |-> 0])
            /\ last_response' = 200
    /\ UNCHANGED <<scraping_status, scraping_lock, db_dates, run_report>>

\* POST /api/admin/scrape
TriggerScrape(d, covers, force) ==
    /\ IF scrape_in_progress
       THEN /\ last_response' = 409
            /\ UNCHANGED runs
       ELSE IF d \in db_dates /\ ~force
       THEN /\ last_response' = 409
            /\ UNCHANGED runs
       ELSE /\ Len(runs) < MaxRuns
            /\ runs' = Append(runs, [date |-> d, covers |-> covers, pc |-> "scheduled",
                                     n |-> 0, i |-> 0])
            /\ last_response' = 200
    /\ UNCHANGED <<scraping_status, scraping_lock, db_dates, run_report>>

\* POST /api/admin/scrape/stop without the test of is_running
StopScrapingUnchecked ==
    /\ scraping_status' = [scraping_status EXCEPT !.should_stop = TRUE]
    /\ last_response' = 200
    /\ UNCHANGED <<scraping_lock, runs, db_dates, run_report>>

\* POST /api/admin/scrape/stop
StopScraping ==
    /\ IF ~scraping_status.is_running
       THEN /\ last_response' = 400
            /\ UNCHANGED scraping_status
       ELSE /\ scraping_status' = [scraping_status EXCEPT !.should_stop = TRUE]
            /\ last_response' = 200
    /\ UNCHANGED <<scraping_lock, runs, db_dates, run_report>>

\* except Exception of run_scraper_task, up to the await of scraper.close()
RunFail(r, error) ==
    /\ scraping_status' = [scraping_status EXCEPT
            !.is_running = FALSE, !.error = error, !.should_stop = FALSE,
            !.rate_limited = (error = "timeout")]
    /\ runs' = SetPc(r, "failing")
    /\ UNCHANGED run_report
    /\ UNCHANGED <<scraping_lock, db_dates>>

\* run_scraper_task_with_lock takes the lock and run_scraper_task runs up to
\* the await of scraper.initialize()
RunStart(r) ==
    /\ runs[r].pc = "scheduled"
    /\ lock_free
    /\ scraping_lock' = r
    /\ scraping_status' = [is_running |-> TRUE, should_stop |-> FALSE,
                           rate_limited |-> FALSE, total |-> 0, error |-> "none"]
    /\ runs' = SetPc(r, "init")
    /\ run_report' = NoReport
    /\ UNCHANGED <<db_dates, last_response>>

\* the scraper is constructed and scraper.initialize() returned, or one of
\* them raised an error that the except clause takes for a timeout or not
\* (the constructor of scraper.py declares no stop_callback, the call that
\* passes one raises); then the stop check and the await of
\* search_albums_by_date
RunInitialised(r, outcome) ==
    /\ runs[r].pc = "init"
    /\ IF outcome # "ok" THEN RunFail(r, outcome)
       ELSE IF scraping_status.should_stop THEN RunFail(r, "stopped")
       ELSE /\ runs' = SetPc(r, "scraping")
            /\ UNCHANGED <<scraping_status, scraping_lock, db_dates, run_report>>
    /\ UNCHANGED last_response

\* from the end of the album loop to the await of scraper.close(): the JSON
\* file, ingest_json_files, the genres and their statistics
Persist(r, n) ==
    /\ scraping_status' = [scraping_status EXCEPT
            !.total = n, !.rate_limited = @ \/ (n = 0)]
    /\ db_dates' = IF n > 0 THEN db_dates \cup {runs[r].date} ELSE db_dates
    /\ runs' = [runs EXCEPT ![r].pc = "closing", ![r].n = n, ![r].i = n]
    /\ run_report' = [run_report EXCEPT !.n = n, !.wrote = n]
    /\ UNCHANGED scraping_lock

\* the album loop of run_scraper_task from album i on, up to its next await;
\* progress and total are written once album i - 1 is through
AlbumLoop(r, n, i) ==
    IF i >= n THEN Persist(r, n)
    ELSE IF scraping_status.should_stop THEN RunFail(r, "stopped")
    ELSE IF runs[r].covers
    THEN /\ runs' = [runs EXCEPT ![r].pc = "cover", ![r].n = n, ![r].i = i]
         /\ scraping_status' = [scraping_status EXCEPT !.total = IF i > 0 THEN n ELSE @]
         /\ run_report' = [run_report EXCEPT !.n = n]
         /\ UNCHANGED <<scraping_lock, db_dates>>
    ELSE Persist(r, n)

\* _get_albums_for_month: a listing page could not be fetched, or its JSON not
\* extracted; the error is logged and the page loop left by break
PageFailed(r) ==
    /\ runs[r].pc = "scraping"
    /\ ~run_report.failed
    /\ run_report' = [run_report EXCEPT !.failed = TRUE]
    /\ UNCHANGED <<scraping_status, scraping_lock, runs, db_dates, last_response>>

\* search_albums_by_date returned the n albums of the pages it has read: it
\* returns the list whether the page loop ended or broke, and never raises
RunScraped(r, n) ==
    /\ runs[r].pc = "scraping"
    /\ AlbumLoop(r, n, 0)
    /\ UNCHANGED last_response

\* scraper.download_cover returned for album i
RunCover(r) ==
    /\ runs[r].pc = "cover"
    /\ AlbumLoop(r, runs[r].n, runs[r].i + 1)
    /\ UNCHANGED last_response

\* scraper.close() returned; the run awaits the verifier
RunClosed(r) ==
    /\ runs[r].pc = "closing"
    /\ runs' = SetPc(r, "verifying")
    /\ UNCHANGED <<scraping_status, scraping_lock, db_dates, last_response, run_report>>

\* the last status update of the run: it returns and the lock is released
RunReturn(r) ==
    /\ scraping_status' = [scraping_status EXCEPT
            !.is_running = FALSE, !.should_stop = FALSE, !.rate_limited = FALSE]
    /\ runs' = SetPc(r, "done")
    /\ scraping_lock' = None
    /\ UNCHANGED run_report

\* the verifier returned (then queue_youtube_downloads_for_date is awaited) or
\* raised (then the run ends)
RunVerified(r, ok) ==
    /\ runs[r].pc = "verifying"
    /\ IF ok
       THEN /\ runs' = SetPc(r, "queueing")
            /\ UNCHANGED <<scraping_status, scraping_lock, run_report>>
       ELSE RunReturn(r)
    /\ UNCHANGED <<db_dates, last_response>>

\* queue_youtube_downloads_for_date returned
RunQueued(r) ==
    /\ runs[r].pc = "queueing"
    /\ RunReturn(r)
    /\ UNCHANGED <<db_dates, last_response>>

\* scraper.close() of the except clause returned
RunFailed(r) ==
    /\ runs[r].pc = "failing"
    /\ runs' = SetPc(r, "done")
    /\ scraping_lock' = None
    /\ UNCHANGED <<scraping_status, db_dates, last_response, run_report>>

notScrape == <<cacheVars, dlVars, plVars, restVars>>

NextScrape ==
    \/ \E d \in Dates, c \in BOOLEAN, f \in BOOLEAN :
          TriggerScrape(d, c, f) /\ UNCHANGED notScrape
    \/ StopScraping /\ UNCHANGED notScrape
    \/ \E r \in DOMAIN runs : RunStart(r) /\ UNCHANGED notScrape
    \/ \E r \in DOMAIN runs, outcome \in InitOutcomes :
          RunInitialised(r, outcome) /\ UNCHANGED notScrape
    \/ \E r \in DOMAIN runs : PageFailed(r) /\ UNCHANGED notScrape
    \/ \E r \in DOMAIN runs, n \in 0..MaxAlbums : RunScraped(r, n) /\ UNCHANGED notScrape
    \/ \E r \in DOMAIN runs : RunCover(r) /\ UNCHANGED notScrape
    \/ \E r \in DOMAIN runs : RunClosed(r) /\ UNCHANGED notScrape
    \/ \E r \in DOMAIN runs, ok \in BOOLEAN : RunVerified(r, ok) /\ UNCHANGED notScrape
    \/ \E r \in DOMAIN runs : RunQueued(r) /\ UNCHANGED notScrape
    \/ \E r \in DOMAIN runs : RunFailed(r) /\ UNCHANGED notScrape

SpecScrape == Init /\ [][NextScrape]_vars

(***************************************************************************)
(* Properties of the scrape single-flight                                  *)
(***************************************************************************)
Executing == {r \in DOMAIN runs : runs[r].pc \in RunningPcs}

Unfinished == {r \in DOMAIN runs : runs[r].pc # "done"}

\* C3: at most one scrape pipeline (run_scraper_task) is executing, and the
\* lock is held by it.
C3_SingleFlight ==
    /\ Cardinality(Executing) <= 1
    /\ \A r \in Executing : scraping_lock = r

\* C3 witness: a second accepted run waits for the lock while the first one
\* executes
C3_Witness ==
    \E r1, r2 \in DOMAIN runs :
        /\ runs[r1].pc \in RunningPcs
        /\ runs[r2].pc = "scheduled"

\* C4: from the moment a scrape request is accepted until its pipeline has
\* finished no second run is scheduled: every further request gets 409.
C4_NoSecondRunScheduled ==
    Cardinality(Unfinished) <= 1

(***************************************************************************)
(* Properties of the outcome of a pipeline run                             *)
(***************************************************************************)
\* the progress report shows a run that has finished ...
Finished == ~scraping_status.is_running /\ \E r \in DOMAIN runs : runs[r].pc # "scheduled"

\* ... without an error
Completed == Finished /\ scraping_status.error = "none"

NoReorder == [called |-> FALSE]

ItemsOf(p) == {it \in playlist_items : it.playlist_id = p}

PositionsOf(p) == {it.position : it \in ItemsOf(p)}

SetMax(S) == CHOOSE x \in S : \A y \in S : y <= x

\* SELECT COALESCE(MAX(position), 0) + 1 FROM playlist_items WHERE playlist_id = ?
next_position(p) == IF ItemsOf(p) = {} THEN 1 ELSE SetMax(PositionsOf(p)) + 1

\* UPDATE playlist_items SET position = ? WHERE id = ? AND playlist_id = ?
UpdatePosition(items, p, id, pos) ==
    {IF it.id = id /\ it.playlist_id = p THEN [it EXCEPT !.position = pos] ELSE it
        : it \in items}

\* for position, item_id in enumerate(item_ids, start=1): the UPDATE
RECURSIVE ReorderFrom(_, _, _, _)
ReorderFrom(items, p, item_ids, k) ==
    IF k > Len(item_ids) THEN items
    ELSE ReorderFrom(UpdatePosition(items, p, item_ids[k], k), p, item_ids, k + 1)

reorder_playlist_items(items, p, item_ids) == ReorderFrom(items, p, item_ids, 1)

CreatePlaylist ==
    /\ next_playlist_id <= MaxPlaylists
    /\ playlists' = playlists \cup {next_playlist_id}
    /\ next_playlist_id' = next_playlist_id + 1
    /\ last_reorder' = NoReorder
    /\ UNCHANGED <<playlist_items, next_item_id>>

\* DELETE FROM playlists; the connection never turns foreign keys on, so the
\* items stay
DeletePlaylist(p) ==
    /\ p \in playlists
    /\ playlists' = playlists \ {p}
    /\ last_reorder' = NoReorder
    /\ UNCHANGED <<playlist_items, next_playlist_id, next_item_id>>

\* POST /api/playlists/{id}/items: 404 for an unknown playlist, else the INSERT
AddPlaylistItem(p, a) ==
    /\ p \in playlists
    /\ next_item_id <= MaxItems
    /\ playlist_items' = playlist_items \cup
            {[id |-> next_item_id, playlist_id |-> p, album_id |-> a,
              position |-> next_position(p)]}
    /\ next_item_id' = next_item_id + 1
    /\ last_reorder' = NoReorder
    /\ UNCHANGED <<playlists, next_playlist_id>>

\* DELETE /api/playlists/{id}/items/{item_id}
DeletePlaylistItem(p, id) ==
    /\ \E it \in ItemsOf(p) : it.id = id
    /\ playlist_items' = {it \in playlist_items : ~(it.id = id /\ it.playlist_id = p)}
    /\ last_reorder' = NoReorder
    /\ UNCHANGED <<playlists, next_playlist_id, next_item_id>>

\* PUT /api/playlists/{id}/reorder
ReorderPlaylist(p, item_ids) ==
    /\ playlist_items' = reorder_playlist_items(playlist_items, p, item_ids)
    /\ last_reorder' = [called |-> TRUE, playlist_id |-> p, item_ids |-> item_ids,
                        before |-> ItemsOf(p)]
    /\ UNCHANGED <<playlists, next_playlist_id, next_item_id>>

\* the album the items of this specification are for
AnyAlbum == CHOOSE a \in AlbumIds : TRUE

ItemIdLists ==
    UNION {[1..n -> 1..MaxItems] : n \in 0..MaxReorder}

notPlaylist == <<cacheVars, dlVars, scVars, restVars>>

NextPlaylist ==
    \/ CreatePlaylist /\ UNCHANGED notPlaylist
    \/ \E p \in 1..MaxPlaylists : DeletePlaylist(p) /\ UNCHANGED notPlaylist
    \/ \E p \in 1..MaxPlaylists : AddPlaylistItem(p, AnyAlbum) /\ UNCHANGED notPlaylist
    \/ \E p \in 1..MaxPlaylists, id \in 1..MaxItems :
          DeletePlaylistItem(p, id) /\ UNCHANGED notPlaylist
    \/ \E p \in 1..MaxPlaylists, ids \in ItemIdLists :
          ReorderPlaylist(p, ids) /\ UNCHANGED notPlaylist

SpecPlaylist == Init /\ [][NextPlaylist]_vars

\* C10: the positions of the N items of a playlist are exactly 1..N, without
\* duplicates and without gaps.
C10_PositionsDense ==
    \A p \in playlists :
        /\ PositionsOf(p) = 1..Cardinality(ItemsOf(p))
        /\ Cardinality(PositionsOf(p)) = Cardinality(ItemsOf(p))

(***************************************************************************)
(* Properties of the playlist order                                        *)
(***************************************************************************)
\* item_ids lists every item of the rows exactly once
ListsAll(item_ids, rows) ==
    /\ Len(item_ids) = Cardinality(rows)
    /\ {item_ids[k] : k \in DOMAIN item_ids} = {it.id : it \in rows}

PositionIn(rows, id) == (CHOOSE it \in rows : it.id = id).position

\* item_ids lists the rows in the order of their positions
InOrderOf(item_ids, rows) ==
    /\ ListsAll(item_ids, rows)
    /\ \A k, l \in DOMAIN item_ids :
          k < l => PositionIn(rows, item_ids[k]) <= PositionIn(rows, item_ids[l])

\* the last step reordered playlist p by a permutation of its items, and
\* item_ids undoes it: it lists the items in the order they had before
RoundTrip(p, item_ids) ==
    /\ last_reorder.called
    /\ last_reorder.playlist_id = p
    /\ last_reorder.before # {}
    /\ ListsAll(last_reorder.item_ids, last_reorder.before)
    /\ InOrderOf(item_ids, last_reorder.before)

\* C11: a reorder by a permutation of the playlist's item ids followed by the
\* reorder by the inverse permutation leaves every item at the position it had
\* before the two.
C11_ReorderRoundTrip ==
    [][\A p \in 1..MaxPlaylists, item_ids \in ItemIdLists :
          ReorderPlaylist(p, item_ids) /\ RoundTrip(p, item_ids)
              => {it \in playlist_items' : it.playlist_id = p} = last_reorder.before]_vars

\* C16: when delete_playlist(p) has deleted playlist p, no playlist item with
\* playlist id p is left.
C16_DeletePlaylistCascades ==
    [][\A p \in 1..MaxPlaylists :
          DeletePlaylist(p) => \A it \in playlist_items' : it.playlist_id # p]_vars

(***************************************************************************)
(* Album store (db_manager.py) and its writers                             *)
(***************************************************************************)
NoPersist == [called |-> FALSE]

NoDelete == [called |-> FALSE]

\* what the scraper returns for one album of the day it searched
ScrapedEntries == [album_id : AlbumIds, tracklist : TrackLists]

\* the lists of n albums of day d
ListsFor(n, d) ==
    {[i \in 1..n |-> [album_id |-> l[i].album_id, release_date |-> d,
                      tracklist |-> l[i].tracklist]] : l \in [1..n -> ScrapedEntries]}

AlbumLists == UNION {ListsFor(n, d) : n \in 1..MaxList, d \in ReleaseDates}

\* the lists of one album
SingleAlbumLists == UNION {ListsFor(1, d) : d \in ReleaseDates}

AlbumsWithId(rows, a) == {r \in rows : r.album_id = a}

\* an INSERT that kept the columns it does not name (an upsert by UPDATE)
insert_album_row_kept(rows, rec) ==
    IF AlbumsWithId(rows, rec.album_id) = {}
    THEN rows \cup {[album_id |-> rec.album_id, release_date |-> rec.release_date,
                     youtube_embed_url |-> "NULL", bandcamp_embed_url |-> "NULL",
                     playable_verified |-> FALSE]}
    ELSE {IF r.album_id = rec.album_id THEN [r EXCEPT !.release_date = rec.release_date]
          ELSE r : r \in rows}

\* INSERT OR REPLACE INTO albums: the row of the same album_id goes, the new
\* one has the defaults in the columns the statement does not name
insert_album_row(rows, rec) ==
    (rows \ AlbumsWithId(rows, rec.album_id)) \cup
        {[album_id |-> rec.album_id, release_date |-> rec.release_date,
          youtube_embed_url |-> "NULL", bandcamp_embed_url |-> "NULL",
          playable_verified |-> FALSE]}

\* the INSERTs without the DELETE
insert_album_tracks_kept(t, rec) == [t EXCEPT ![rec.album_id] = @ \o rec.tracklist]

\* DELETE FROM tracks WHERE album_id = ?, then one INSERT per tracklist entry
insert_album_tracks(t, rec) == [t EXCEPT ![rec.album_id] = rec.tracklist]

\* ingest_json_files: insert_album for each album of the list, in order
RECURSIVE ingest_json_files(_, _, _)
ingest_json_files(rows, t, list) ==
    IF list = <<>> THEN [albums |-> rows, tracks |-> t]
    ELSE ingest_json_files(insert_album_row(rows, Head(list)),
                           insert_album_tracks(t, Head(list)), Tail(list))

VerifyResults == {"none", "notfound", "found"}

\* a found result without an embed link
embed_url_absent(r) == "NULL"

\* the embed_url of a result with found = True
embed_url(r) == "url"

\* youtube_result and youtube_result.get('found')
result_found(r) == r = "found"

update_album_playable_urls(rows, a, youtube_result, bandcamp_result) ==
    IF ~(result_found(youtube_result) \/ result_found(bandcamp_result)) THEN rows
    ELSE {IF r.album_id # a THEN r
          ELSE [r EXCEPT
                  !.youtube_embed_url =
                      IF result_found(youtube_result) THEN embed_url(youtube_result) ELSE @,
                  !.bandcamp_embed_url =
                      IF result_found(bandcamp_result) THEN embed_url(bandcamp_result) ELSE @,
                  !.playable_verified = TRUE]
            : r \in rows}

\* the pipeline saves a scraped list
PersistList(list) ==
    LET r == ingest_json_files(albums, tracks, list) IN
    /\ albums' = r.albums
    /\ tracks' = r.tracks
    /\ last_persist' = [called |-> TRUE, list |-> list,
                        albums |-> r.albums, tracks |-> r.tracks,
                        again |-> last_persist.called /\ last_persist.list = list,
                        verified |-> {x.album_id : x \in {y \in albums : y.playable_verified}}]
    /\ last_delete' = NoDelete

\* BatchVerifier.verify_album got its two results for album a: result[...] is
\* kept only when found, the database is updated only on success
VerifyAlbum(a, y, b) ==
    LET youtube == IF result_found(y) THEN y ELSE "none"
        bandcamp == IF result_found(b) THEN b ELSE "none"
        success == youtube # "none" \/ bandcamp # "none"
    IN
    /\ albums' = IF success THEN update_album_playable_urls(albums, a, youtube, bandcamp)
                 ELSE albums
    /\ last_persist' = NoPersist
    /\ last_delete' = NoDelete
    /\ UNCHANGED tracks

\* verify_albums.py --force: the verification of a date range is cleared
ForceClear(d1, d2) ==
    /\ albums' = {IF d1 <= r.release_date /\ r.release_date <= d2
                  THEN [r EXCEPT !.playable_verified = FALSE,
                                 !.youtube_embed_url = "NULL",
                                 !.bandcamp_embed_url = "NULL"]
                  ELSE r : r \in albums}
    /\ last_persist' = NoPersist
    /\ last_delete' = NoDelete
    /\ UNCHANGED tracks

\* delete_albums_by_date and delete_albums_by_date_range after their SELECT
\* found the albums album_ids: the tracks of these go, then the albums
delete_albums(rows, t, album_ids) ==
    IF album_ids = {} THEN [albums |-> rows, tracks |-> t, returned |-> 0]
    ELSE [albums |-> {r \in rows : r.album_id \notin album_ids},
          tracks |-> [a \in AlbumIds |-> IF a \in album_ids THEN <<>> ELSE t[a]],
          returned |-> Cardinality({r \in rows : r.album_id \in album_ids})]

DeleteAlbums(album_ids) ==
    LET r == delete_albums(albums, tracks, album_ids) IN
    /\ albums' = r.albums
    /\ tracks' = r.tracks
    /\ last_delete' = [called |-> TRUE, album_ids |-> album_ids, returned |-> r.returned,
                       albums |-> albums, tracks |-> tracks, items |-> playlist_items]
    /\ last_persist' = NoPersist

\* SELECT album_id FROM albums WHERE release_date = ?
DeleteByDate(d) ==
    DeleteAlbums({r.album_id : r \in {x \in albums : x.release_date = d}})

\* SELECT album_id FROM albums WHERE release_date >= ? AND release_date <= ?
DeleteByRange(d1, d2) ==
    DeleteAlbums({r.album_id : r \in {x \in albums : d1 <= x.release_date /\ x.release_date <= d2}})

\* POST /api/playlists/{id}/items for album a: 404 unless the album exists
AddPlaylistItemRequest(p, a) ==
    /\ AlbumsWithId(albums, a) # {}
    /\ AddPlaylistItem(p, a)
    /\ last_persist' = NoPersist
    /\ last_delete' = NoDelete
    /\ UNCHANGED <<albums, tracks>>

notStore == <<cacheVars, dlVars, scVars, gnVars, auVars, adVars, orVars, rgVars, mpVars, seVars, dyVars, pdVars, nvVars, vfVars, tgVars>>

NextStore ==
    \/ \E list \in AlbumLists : PersistList(list) /\ UNCHANGED <<notStore, plVars>>
    \/ \E a \in AlbumIds, y \in VerifyResults, b \in VerifyResults :
          VerifyAlbum(a, y, b) /\ UNCHANGED <<notStore, plVars>>
    \/ \E d1 \in ReleaseDates, d2 \in ReleaseDates :
          ForceClear(d1, d2) /\ UNCHANGED <<notStore, plVars>>
    \/ \E d \in ReleaseDates : DeleteByDate(d) /\ UNCHANGED <<notStore, plVars>>
    \/ \E d1 \in ReleaseDates, d2 \in ReleaseDates :
          DeleteByRange(d1, d2) /\ UNCHANGED <<notStore, plVars>>

SpecStore == Init /\ [][NextStore]_vars

\* the deletes next to the playlists whose items name albums
NextCascade ==
    \/ \E list \in SingleAlbumLists : PersistList(list) /\ UNCHANGED <<notStore, plVars>>
    \/ \E d \in ReleaseDates : DeleteByDate(d) /\ UNCHANGED <<notStore, plVars>>
    \/ \E d1 \in ReleaseDates, d2 \in ReleaseDates :
          DeleteByRange(d1, d2) /\ UNCHANGED <<notStore, plVars>>
    \/ CreatePlaylist /\ UNCHANGED <<notStore, stVars>>
    \/ \E p \in 1..MaxPlaylists, a \in AlbumIds :
          AddPlaylistItemRequest(p, a) /\ UNCHANGED notStore

SpecCascade == Init /\ [][NextCascade]_vars

(***************************************************************************)
(* Properties of the album store                                           *)
(***************************************************************************)
\* C12: every album with playable_verified set has a video embed URL or a
\* music-sales embed URL.
C12_VerifiedHasEmbed ==
    \A r \in albums :
        r.playable_verified => r.youtube_embed_url # "NULL" \/ r.bandcamp_embed_url # "NULL"

\* C12 witness: a verified album, and an album whose verification an upsert
\* has reset
C12_Witness ==
    /\ \E r \in albums : r.playable_verified /\ r.youtube_embed_url # "NULL"
    /\ \E r \in albums : ~r.playable_verified

\* the last step persisted the list that the step before it had persisted
PersistedAgain(list) == last_persist.called /\ last_persist.list = list

NoRepeatedNumber(t) == \A i, j \in DOMAIN t : t[i] = t[j] => i = j

\* the tracklist the list gives album a: the one of its last entry for a
LastTracklist(list, a) ==
    list[SetMax({i \in DOMAIN list : list[i].album_id = a})].tracklist

C15_DeleteCascades ==
    last_delete.called =>
        LET ids == last_delete.album_ids IN
        /\ \A a \in ids : tracks[a] = <<>> /\ AlbumsWithId(albums, a) = {}
        /\ \A it \in playlist_items : it.album_id \notin ids
        /\ albums = {r \in last_delete.albums : r.album_id \notin ids}
        /\ \A a \in AlbumIds \ ids : tracks[a] = last_delete.tracks[a]
        /\ {it \in playlist_items : it.album_id \notin ids} =
               {it \in last_delete.items : it.album_id \notin ids}
        /\ ids = {} => last_delete.returned = 0

(***************************************************************************)
(* Parsed genres and their statistics (db_manager.py)                      *)
(***************************************************************************)
\* DELETE FROM parsed_genres WHERE album_id = ?, then one INSERT per genre
insert_parsed_genres(rows, a, genre_names) ==
    {r \in rows : r.album_id # a} \cup
        {[album_id |-> a, genre_name |-> g] : g \in genre_names}

\* COUNT(DISTINCT pg.album_id) ... FROM parsed_genres pg JOIN albums a ON
\* pg.album_id = a.album_id ... of the group of genre g
count_albums(pg, rows, g) ==
    Cardinality({r.album_id :
        r \in {x \in pg : x.genre_name = g /\ AlbumsWithId(rows, x.album_id) # {}}})

\* DELETE FROM genre_stats; INSERT ... SELECT ... GROUP BY pg.genre_name
update_genre_statistics(pg, rows) ==
    {[genre_name |-> g, album_count |-> count_albums(pg, rows, g)] :
        g \in {x \in Genres : count_albums(pg, rows, x) > 0}}

\* run_scraper_task stores the genres of an album it has ingested; an album
\* without genres is skipped
InsertParsedGenres(a, genre_names) ==
    /\ AlbumsWithId(albums, a) # {}
    /\ genre_names # {}
    /\ parsed_genres' = insert_parsed_genres(parsed_genres, a, genre_names)
    /\ UNCHANGED genre_stats

UpdateGenreStatistics ==
    /\ genre_stats' = update_genre_statistics(parsed_genres, albums)
    /\ UNCHANGED parsed_genres

notGenres == <<cacheVars, dlVars, scVars, plVars, auVars, adVars, orVars, rgVars, mpVars, seVars, dyVars, pdVars, nvVars, vfVars, tgVars>>

NextGenres ==
    \/ \E list \in SingleAlbumLists : PersistList(list) /\ UNCHANGED <<notGenres, gnVars>>
    \/ \E a \in AlbumIds, gs \in SUBSET Genres :
          InsertParsedGenres(a, gs) /\ UNCHANGED <<notGenres, stVars>>
    \/ UpdateGenreStatistics /\ UNCHANGED <<notGenres, stVars>>
    \/ \E d \in ReleaseDates : DeleteByDate(d) /\ UNCHANGED <<notGenres, gnVars>>
    \/ \E d1 \in ReleaseDates, d2 \in ReleaseDates :
          DeleteByRange(d1, d2) /\ UNCHANGED <<notGenres, gnVars>>

SpecGenres == Init /\ [][NextGenres]_vars

\* the album_count stored for genre g, 0 without a row
StoredCount(stats, g) ==
    IF \E r \in stats : r.genre_name = g
    THEN (CHOOSE r \in stats : r.genre_name = g).album_count
    ELSE 0

\* C13: after update_genre_statistics the album_count of every genre g is the
\* number of distinct albums with a parsed-genre row of g.
C13_GenreStatsCount ==
    [][UpdateGenreStatistics =>
          \A g \in Genres :
              StoredCount(genre_stats', g) =
                  Cardinality({r.album_id : r \in {x \in parsed_genres' : x.genre_name = g}})]_vars

(***************************************************************************)
(* Admin login (auth_manager.py, web_server.py)                            *)
(***************************************************************************)
\* a lock at the 5th failure only
lock_due_exact(new_attempts) == new_attempts = LockThreshold

\* if new_attempts >= 5
lock_due(new_attempts) == new_attempts >= LockThreshold

\* if locked_until: ... if datetime.utcnow() < locked_until_dt
is_locked(until, t) == until # None /\ t < until

AuthTick ==
    /\ auth_now < MaxMinutes
    /\ auth_now' = auth_now + 1
    /\ UNCHANGED <<admin_set, login_attempts, locked_until, last_login>>

\* POST /api/auth/setup
SetupAdminPassword ==
    /\ IF admin_set
       THEN /\ last_login' = [status |-> 409, token |-> FALSE]
            /\ UNCHANGED <<admin_set, login_attempts, locked_until>>
       ELSE /\ admin_set' = TRUE
            /\ login_attempts' = 0
            /\ locked_until' = None
            /\ last_login' = [status |-> 200, token |-> TRUE]
    /\ UNCHANGED auth_now

\* POST /api/auth/login with the right or a wrong password
AdminLogin(correct) ==
    /\ IF ~admin_set
       THEN /\ last_login' = [status |-> 409, token |-> FALSE]
            /\ UNCHANGED <<login_attempts, locked_until>>
       ELSE IF is_locked(locked_until, auth_now)
       THEN /\ last_login' = [status |-> 423, token |-> FALSE]
            /\ UNCHANGED <<login_attempts, locked_until>>
       ELSE IF correct
       THEN /\ login_attempts' = 0
            /\ locked_until' = None
            /\ last_login' = [status |-> 200, token |-> TRUE]
       ELSE /\ login_attempts < MaxFailures
            /\ login_attempts' = login_attempts + 1
            /\ locked_until' = IF lock_due(login_attempts + 1)
                               THEN auth_now + LockMinutes ELSE None
            /\ last_login' = [status |-> IF lock_due(login_attempts + 1) THEN 423 ELSE 401,
                              token |-> FALSE]
    /\ UNCHANGED <<admin_set, auth_now>>

notAuth == <<cacheVars, dlVars, scVars, plVars, stVars, gnVars, adVars, orVars, rgVars, mpVars, seVars, dyVars, pdVars, nvVars, vfVars, tgVars>>

NextAuth ==
    \/ AuthTick /\ UNCHANGED notAuth
    \/ SetupAdminPassword /\ UNCHANGED notAuth
    \/ \E correct \in BOOLEAN : AdminLogin(correct) /\ UNCHANGED notAuth

SpecAuth == Init /\ [][NextAuth]_vars

\* C17: a login while the lock has not expired gets 423 and no token and leaves
\* the counter and the lock; a successful login resets the counter and clears
\* the lock; a failed login starts a lock of 15 minutes exactly when it is the
\* 5th consecutive failure.
C17_AdminLockout ==
    [][\A correct \in BOOLEAN :
          AdminLogin(correct) /\ admin_set =>
              IF locked_until # None /\ auth_now < locked_until
              THEN /\ last_login'.status = 423 /\ ~last_login'.token
                   /\ login_attempts' = login_attempts
                   /\ locked_until' = locked_until
              ELSE IF correct
              THEN /\ last_login'.token
                   /\ login_attempts' = 0
                   /\ locked_until' = None
              ELSE /\ ~last_login'.token
                   /\ (locked_until' = auth_now + LockMinutes) <=> (login_attempts' = LockThreshold)
                   /\ (locked_until' = None) <=> (login_attempts' # LockThreshold)]_vars

(***************************************************************************)
(* GET /api/youtube/audio/{video_id} (web_server.py)                       *)
(***************************************************************************)
\* YouTubeDownloadManager.get_download_status: self.active_downloads.get(video_id)
get_download_status(v) == active_downloads[v]

GetYoutubeAudio(v) ==
    LET r == get_cached_file(metadata, files, v, now) IN
    /\ metadata' = r.meta
    /\ last_cleanup' = NoCleanup
    /\ audio_response' =
          [status |-> IF r.found THEN 200
                      ELSE IF get_download_status(v) # None THEN 202 ELSE 404,
           video_id |-> v]
    /\ UNCHANGED <<files, max_size, now, dlVars>>

NextAudio ==
    \/ NextDl /\ UNCHANGED adVars
    \/ \E v \in DlIds :
          GetYoutubeAudio(v) /\ UNCHANGED <<scVars, plVars, stVars, gnVars, auVars, orVars, rgVars, mpVars, seVars, dyVars, pdVars, nvVars, vfVars, tgVars>>

SpecAudio == Init /\ [][NextAudio]_vars

\* C18: an audio request creates and queues no task; for an id that is not
\* cached it answers 202 whenever a task for the id is queued, downloading or
\* waiting for its retry, and 404 only when there is none.
C18_AudioRequestStatus ==
    [][\A v \in DlIds :
          GetYoutubeAudio(v) =>
              /\ tasks' = tasks /\ download_queue' = download_queue
              /\ ~get_cached_file(metadata, files, v, now).found =>
                    /\ (\E t \in Pending : tasks[t].video_id = v)
                          => audio_response'.status = 202
                    /\ audio_response'.status = 404
                          => ~\E t \in Pending : tasks[t].video_id = v]_vars

(***************************************************************************)
(* The daily scheduler (daily_orchestrator.py)                             *)
(***************************************************************************)
\* a check that lets every trigger through
should_run_always(last, t) == TRUE

\* date.today() at tick t
Today(t) == (t \div 2) + 1

\* schedule.every().day.at(daily_time): the next daily time after tick t
NextDaily(t) == IF t % 2 = 0 THEN t + 1 ELSE t + 2

\* should_run_today: self.last_run_date != date.today()
should_run_today(last, t) == last # Today(t)

\* run_scheduled_task up to the subprocess of run_daily_update(date.today())
StartRun(trigger) ==
    /\ orch_pc' = "running"
    /\ orch_runs' = Append(orch_runs, [day |-> Today(orch_now), at |-> orch_now,
                                       trigger |-> trigger, result |-> "running"])

\* time passes, before the process is started as well as after
OrchTick ==
    /\ orch_now < MaxTicks
    /\ orch_now' = orch_now + 1
    /\ UNCHANGED <<orch_pc, last_run_date, next_run, orch_runs>>

\* start_scheduler: the job is scheduled, then the immediate run
StartScheduler ==
    /\ orch_pc = "boot"
    /\ next_run' = NextDaily(orch_now)
    /\ IF should_run_today(last_run_date, orch_now)
       THEN StartRun("startup")
       ELSE orch_pc' = "idle" /\ UNCHANGED orch_runs
    /\ UNCHANGED <<orch_now, last_run_date>>

\* schedule.run_pending() finds the job due and calls run_scheduled_task
DailyTrigger ==
    /\ orch_pc = "idle"
    /\ next_run <= orch_now
    /\ IF should_run_today(last_run_date, orch_now)
       THEN StartRun("daily") /\ UNCHANGED next_run
       ELSE /\ next_run' = NextDaily(orch_now)
            /\ UNCHANGED <<orch_pc, orch_runs>>
    /\ UNCHANGED <<orch_now, last_run_date>>

\* run_daily_update returned: last_run_date = date.today() on success; a job
\* that has run is scheduled for the next daily time
RunDone(success) ==
    /\ orch_pc = "running"
    /\ orch_pc' = "idle"
    /\ last_run_date' = IF success THEN Today(orch_now) ELSE last_run_date
    /\ orch_runs' = [orch_runs EXCEPT ![Len(orch_runs)].result =
                        IF success THEN "ok" ELSE "failed"]
    /\ next_run' = IF orch_runs[Len(orch_runs)].trigger = "daily"
                   THEN NextDaily(orch_now) ELSE next_run
    /\ UNCHANGED orch_now

notScheduler == <<cacheVars, dlVars, scVars, plVars, stVars, gnVars, auVars, adVars, rgVars,
                  mpVars, seVars, dyVars, pdVars, nvVars, vfVars, tgVars>>

NextScheduler ==
    \/ OrchTick /\ UNCHANGED notScheduler
    \/ StartScheduler /\ UNCHANGED notScheduler
    \/ DailyTrigger /\ UNCHANGED notScheduler
    \/ \E success \in BOOLEAN : RunDone(success) /\ UNCHANGED notScheduler

SpecScheduler == Init /\ [][NextScheduler]_vars

\* the scheduler has started and its first run was the immediate one
RanAtStartup ==
    orch_pc # "boot" => Len(orch_runs) >= 1 /\ orch_runs[1].trigger = "startup"

RangeDays == 1..MaxDay

\* an exit code that ignores the results
range_exit_code_zero(rs) == 0

\* main: return 0 if successful == total else 1
range_exit_code(rs) ==
    LET successful == Cardinality({i \in DOMAIN rs : rs[i].success})
        total == Len(rs)
    IN IF successful = total THEN 0 ELSE 1

\* main up to the call of run_date_range: the range is validated, a dry run
\* returns before anything is run
Main(d1, d2, dry_run) ==
    /\ range_pc = "cli"
    /\ start_date' = d1
    /\ end_date' = d2
    /\ IF d1 > d2
       THEN /\ range_pc' = "exited" /\ exit_code' = 1 /\ exit_by' = "invalid"
            /\ UNCHANGED current_date
       ELSE IF dry_run
       THEN /\ range_pc' = "exited" /\ exit_code' = 0 /\ exit_by' = "dry_run"
            /\ UNCHANGED current_date
       ELSE /\ range_pc' = "running" /\ current_date' = d1
            /\ UNCHANGED <<exit_code, exit_by>>
    /\ UNCHANGED results

\* one turn of the loop of run_date_range: run_daily_update(current_date)
\* never raises, its result is appended whatever it is
RangeDay(success) ==
    /\ range_pc = "running"
    /\ current_date <= end_date
    /\ results' = Append(results, [date |-> current_date, success |-> success])
    /\ current_date' = current_date + 1
    /\ UNCHANGED <<range_pc, start_date, end_date, exit_code, exit_by>>

\* the loop is over: run_date_range returns and main returns the exit code
RangeReturn ==
    /\ range_pc = "running"
    /\ ~(current_date <= end_date)
    /\ range_pc' = "exited"
    /\ exit_code' = range_exit_code(results)
    /\ exit_by' = "returned"
    /\ UNCHANGED <<start_date, end_date, current_date, results>>

\* KeyboardInterrupt while a day is being run: main returns 1
RangeInterrupt ==
    /\ range_pc = "running"
    /\ current_date <= end_date
    /\ range_pc' = "exited"
    /\ exit_code' = 1
    /\ exit_by' = "interrupted"
    /\ UNCHANGED <<start_date, end_date, current_date, results>>

notRange == <<cacheVars, dlVars, scVars, plVars, stVars, gnVars, auVars, adVars, orVars,
              mpVars, seVars, dyVars, pdVars, nvVars, vfVars, tgVars>>

NextRange ==
    \/ \E d1, d2 \in RangeDays, dry_run \in BOOLEAN :
          Main(d1, d2, dry_run) /\ UNCHANGED notRange
    \/ \E success \in BOOLEAN : RangeDay(success) /\ UNCHANGED notRange
    \/ RangeReturn /\ UNCHANGED notRange
    \/ RangeInterrupt /\ UNCHANGED notRange

SpecRange == Init /\ [][NextRange]_vars

\* the days of [start_date, end_date] have each succeeded in the results
EveryDaySucceeded ==
    \A d \in start_date..end_date :
        \E i \in DOMAIN results : results[i].date = d /\ results[i].success

\* C20: while run_date_range runs the results are the days from start_date on,
\* one entry per day in ascending order whatever the days' outcomes; when it
\* has returned they are every day of [start_date, end_date]; the exit code of
\* a range that was run is 0 exactly when every day of the range succeeded.
C20_RangeRun ==
    /\ \A i \in DOMAIN results : results[i].date = start_date + i - 1
    /\ range_pc = "running" => Len(results) = current_date - start_date
    /\ exit_by = "returned" => Len(results) = end_date - start_date + 1
    /\ exit_by \in {"returned", "interrupted"} =>
          (exit_code = 0 <=> EveryDaySucceeded)

\* C20 witness: a range of three days or more has returned, its first day
\* failed, the days after it were run and succeeded, the exit code is 1
C20_Witness ==
    /\ exit_by = "returned"
    /\ Len(results) >= 3
    /\ ~results[1].success
    /\ \A i \in 2..Len(results) : results[i].success
    /\ exit_code = 1

(***************************************************************************)
(* Cache settings (web_server.py update_cache_settings)                    *)
(***************************************************************************)
\* update_max_parallel: the value is clamped, a new Semaphore replaces the old
clamp_parallel(new_max) ==
    IF new_max < MinParallel THEN MinParallel
    ELSE IF new_max > MaxParallel THEN MaxParallel ELSE new_max

update_max_parallel(new_max) ==
    /\ Len(semaphores) < MaxSemaphores
    /\ max_parallel' = clamp_parallel(new_max)
    /\ semaphores' = Append(semaphores, clamp_parallel(new_max))
    /\ download_semaphore' = Len(semaphores) + 1
    /\ UNCHANGED wsem

\* the range checks of update_cache_settings
size_invalid(new_size) == new_size <= 0 \/ new_size > MaxCacheGb
parallel_invalid(n) == n < MinParallel \/ n > MaxParallel
timeout_invalid(n) == n < MinTimeout \/ n > MaxTimeout

\* the requests: every key is absent or carries a value
SettingsRequests ==
    [youtube_cache_max_size_gb : SizeValues \cup {Absent},
     youtube_parallel_downloads : ParallelValues \cup {Absent},
     youtube_download_timeout : TimeoutValues \cup {Absent},
     youtube_post_scrape_downloads : PostScrapeValues \cup {Absent}]

\* the handler takes the keys in its own order; a key raises when its value
\* is out of range, and is applied when it is present and nothing before it
\* and not itself has raised
SizeRaises(req) ==
    req.youtube_cache_max_size_gb # Absent /\ size_invalid(req.youtube_cache_max_size_gb)
ParallelRaises(req) ==
    req.youtube_parallel_downloads # Absent
        /\ parallel_invalid(req.youtube_parallel_downloads)
TimeoutRaises(req) ==
    req.youtube_download_timeout # Absent /\ timeout_invalid(req.youtube_download_timeout)
PostScrapeRaises(req) ==
    req.youtube_post_scrape_downloads # Absent
        /\ parallel_invalid(req.youtube_post_scrape_downloads)

SizeApplied(req) == req.youtube_cache_max_size_gb # Absent /\ ~SizeRaises(req)
ParallelApplied(req) ==
    req.youtube_parallel_downloads # Absent /\ ~SizeRaises(req) /\ ~ParallelRaises(req)
TimeoutApplied(req) ==
    /\ req.youtube_download_timeout # Absent
    /\ ~SizeRaises(req) /\ ~ParallelRaises(req) /\ ~TimeoutRaises(req)
PostScrapeApplied(req) ==
    /\ req.youtube_post_scrape_downloads # Absent
    /\ ~SizeRaises(req) /\ ~ParallelRaises(req) /\ ~TimeoutRaises(req)
    /\ ~PostScrapeRaises(req)

\* PUT /api/admin/settings/cache: the keys are taken one after the other, each
\* one validated and then saved and applied before the next is looked at
UpdateCacheSettings(req) ==
    LET raised == SizeRaises(req) \/ ParallelRaises(req) \/ TimeoutRaises(req)
                      \/ PostScrapeRaises(req)
        stored == [k \in SettingKeys |->
                     IF k = "youtube_cache_max_size_gb" /\ SizeApplied(req)
                         THEN req.youtube_cache_max_size_gb
                     ELSE IF k = "youtube_parallel_downloads" /\ ParallelApplied(req)
                         THEN req.youtube_parallel_downloads
                     ELSE IF k = "youtube_download_timeout" /\ TimeoutApplied(req)
                         THEN req.youtube_download_timeout
                     ELSE IF k = "youtube_post_scrape_downloads" /\ PostScrapeApplied(req)
                         THEN req.youtube_post_scrape_downloads
                     ELSE stored_settings[k]]
    IN  /\ stored_settings' = stored
        /\ IF SizeApplied(req)
           THEN UpdateMaxSize(req.youtube_cache_max_size_gb)
           ELSE UNCHANGED cacheVars
        /\ IF ParallelApplied(req)
           THEN update_max_parallel(req.youtube_parallel_downloads)
           ELSE UNCHANGED mpVars
        /\ last_update' = [status |-> IF raised THEN 400 ELSE 200,
                           changed |-> \/ stored # stored_settings
                                       \/ max_size' # max_size
                                       \/ max_parallel' # max_parallel]
        /\ UNCHANGED <<download_timeout, run_timeout>>

notSettings == <<dlVars, scVars, plVars, stVars, gnVars, auVars, adVars, orVars, rgVars,
                 dyVars, pdVars, nvVars, vfVars, tgVars>>

NextSettings ==
    \E req \in SettingsRequests : UpdateCacheSettings(req) /\ UNCHANGED notSettings

SpecSettings == Init /\ [][NextSettings]_vars

\* C23: a settings update that is answered with 400 has left every stored
\* setting, the cache quota and the manager's max_parallel as they were.
C23_InvalidSettingsChangeNothing ==
    last_update.status = 400 => ~last_update.changed

(***************************************************************************)
(* Dynamic playlist (web_server.py get_dynamic_playlist)                   *)
(***************************************************************************)
\* a platform that is offered whatever the settings say
platform_enabled_always(setting) == TRUE

\* db.get_setting, "if ... is None: ... = True", then the truth of the value
platform_enabled(setting) == setting # "off"

\* get_albums_for_dynamic_playlist with only_playable: the verified albums of
\* the period that have an embed URL
get_albums_for_dynamic_playlist(rows, d1, d2) ==
    {r \in rows : /\ d1 <= r.release_date /\ r.release_date <= d2
                  /\ r.playable_verified
                  /\ (r.youtube_embed_url # "NULL" \/ r.bandcamp_embed_url # "NULL")}

\* item['platforms'] of an album under the player settings
item_platforms(r, settings) ==
    {pf \in {"youtube", "bandcamp"} :
        \/ pf = "youtube" /\ r.youtube_embed_url # "NULL"
              /\ platform_enabled(settings.youtube)
        \/ pf = "bandcamp" /\ r.bandcamp_embed_url # "NULL"
              /\ platform_enabled(settings.bandcamp)}

\* the items of the answer: the albums that have a platform entry
dynamic_playlist_items(rows, d1, d2, settings) ==
    {[album_id |-> r.album_id, platforms |-> item_platforms(r, settings)] :
        r \in {x \in get_albums_for_dynamic_playlist(rows, d1, d2) :
                  item_platforms(x, settings) # {}}}

\* PUT /api/admin/settings/player: each key of the request is stored
UpdatePlayerSettings(youtube, bandcamp) ==
    /\ player_settings' = [youtube |-> IF youtube = "absent" THEN player_settings.youtube
                                       ELSE youtube,
                           bandcamp |-> IF bandcamp = "absent" THEN player_settings.bandcamp
                                        ELSE bandcamp]
    /\ last_playlist' = [called |-> FALSE]
    /\ UNCHANGED stVars

\* GET /api/playlist/dynamic for the period [d1, d2]
GetDynamicPlaylist(d1, d2) ==
    /\ last_playlist' = [called |-> TRUE, start |-> d1, end |-> d2,
                         items |-> dynamic_playlist_items(albums, d1, d2, player_settings)]
    /\ UNCHANGED <<player_settings, stVars>>

\* a step that is no playlist request
NoPlaylist ==
    /\ last_playlist' = [called |-> FALSE]
    /\ UNCHANGED player_settings

notDynamic == <<cacheVars, dlVars, scVars, plVars, gnVars, auVars, adVars, orVars, rgVars,
                mpVars, seVars, pdVars, nvVars, vfVars, tgVars>>

NextDynamic ==
    \/ \E list \in SingleAlbumLists :
          PersistList(list) /\ NoPlaylist /\ UNCHANGED notDynamic
    \/ \E a \in AlbumIds, y \in VerifyResults, b \in VerifyResults :
          VerifyAlbum(a, y, b) /\ NoPlaylist /\ UNCHANGED notDynamic
    \/ \E y \in {"absent", "on", "off"}, b \in {"absent", "on", "off"} :
          UpdatePlayerSettings(y, b) /\ UNCHANGED notDynamic
    \/ \E d1 \in ReleaseDates, d2 \in ReleaseDates :
          GetDynamicPlaylist(d1, d2) /\ UNCHANGED notDynamic

SpecDynamic == Init /\ [][NextDynamic]_vars

\* the platforms the player settings switch off
Disabled == {pf \in {"youtube", "bandcamp"} : player_settings[pf] = "off"}

\* the platforms album row r has an embed URL for
EmbedsOf(r) ==
    {pf \in {"youtube", "bandcamp"} :
        \/ pf = "youtube" /\ r.youtube_embed_url # "NULL"
        \/ pf = "bandcamp" /\ r.bandcamp_embed_url # "NULL"}

\* C24: every item of a dynamic playlist has at least one platform entry and
\* only entries of enabled platforms, namely the embeds of its album on the
\* enabled platforms; a verified album of the period is omitted exactly when all
\* its embeds belong to disabled platforms.
C24_DynamicPlaylistFilter ==
    last_playlist.called =>
        /\ \A it \in last_playlist.items :
              /\ it.platforms # {}
              /\ it.platforms \cap Disabled = {}
              /\ \E r \in albums : /\ r.album_id = it.album_id
                                   /\ it.platforms = EmbedsOf(r) \ Disabled
        /\ \A r \in albums :
              /\ last_playlist.start <= r.release_date
              /\ r.release_date <= last_playlist.end
              /\ r.playable_verified
              => ((\E it \in last_playlist.items : it.album_id = r.album_id)
                     <=> EmbedsOf(r) \ Disabled # {})

\* C24 witness: video off, music-sales on; an album with both embeds is
\* returned with its music-sales entry only and a video-only album is omitted
C24_Witness ==
    /\ last_playlist.called
    /\ player_settings.youtube = "off"
    /\ player_settings.bandcamp # "off"
    /\ \E r \in albums : /\ r.playable_verified
                         /\ EmbedsOf(r) = {"youtube", "bandcamp"}
                         /\ [album_id |-> r.album_id, platforms |-> {"bandcamp"}]
                                \in last_playlist.items
    /\ \E r \in albums : /\ r.playable_verified
                         /\ EmbedsOf(r) = {"youtube"}
                         /\ last_playlist.start <= r.release_date
                         /\ r.release_date <= last_playlist.end
                         /\ \A it \in last_playlist.items : it.album_id # r.album_id

(***************************************************************************)
(* download_playlist (youtube_download_manager.py)                         *)
(***************************************************************************)
Min(a, b) == IF a < b THEN a ELSE b

\* the playlists: the first tracks, the last track and the last two
VideoIdLists ==
    {SubSeq(Tracks, 1, n) : n \in 1..Len(Tracks)}
        \cup {SubSeq(Tracks, n, Len(Tracks)) : n \in (Len(Tracks) - 1)..Len(Tracks)}

\* the indexes of the current track, one of them outside the shorter lists
CurrentIndexes == 0..2

\* the indexes download_playlist would call download_video for if it went
\* through the list from its start
call_order_plain(len, c) == [k \in 1..len |-> k - 1]

\* the indexes download_playlist calls download_video for, in the order of its
\* calls: current_index, range(current_index + 1, min(current_index + 3, len)),
\* then every i with i < current_index or i >= current_index + 3
call_order(len, c) ==
    LET current == IF 0 <= c /\ c < len THEN <<c>> ELSE <<>>
        stop == Min(c + 3, len)
        next == [k \in 1..(IF stop > c + 1 THEN stop - (c + 1) ELSE 0) |-> c + k]
        rest == SelectSeq([k \in 1..len |-> k - 1], LAMBDA i : i < c \/ i >= c + 3)
    IN  current \o next \o rest

\* download_video on the manager state st = [active, queue]: nothing for an id
\* that is cached or active, else a task is registered and put on the queue
download_video(st, v) ==
    IF v \in pd_cached \/ v \in st.active THEN st
    ELSE [active |-> st.active \cup {v}, queue |-> Append(st.queue, v)]

RECURSIVE download_each(_, _, _)
download_each(st, video_ids, order) ==
    IF order = <<>> THEN st
    ELSE download_each(download_video(st, video_ids[Head(order) + 1]), video_ids,
                       Tail(order))

download_playlist(st, video_ids, current_index) ==
    download_each(st, video_ids, call_order(Len(video_ids), current_index))

\* download_playlist(video_ids, current_index): none of its awaits suspends, the
\* calls of download_video follow each other without another task in between
PdDownloadPlaylist(video_ids, current_index) ==
    LET st == download_playlist([active |-> pd_active, queue |-> pd_queue],
                                video_ids, current_index) IN
    /\ pd_active' = st.active
    /\ pd_queue' = st.queue
    /\ pd_taken' = <<>>
    /\ pd_call' = IF /\ current_index < Len(video_ids)
                     /\ \A i \in DOMAIN video_ids :
                            video_ids[i] \notin pd_cached \cup pd_active
                  THEN [called |-> TRUE, video_ids |-> video_ids,
                        current_index |-> current_index, waiting |-> Len(pd_queue)]
                  ELSE [called |-> FALSE]
    /\ UNCHANGED pd_cached

\* the ids whose tasks workers have got and not finished
PdHeld == {v \in pd_active : \A i \in DOMAIN pd_queue : pd_queue[i] # v}

\* _download_worker: task = await self.download_queue.get(), by a worker that
\* executes no task
PdWorkerGet ==
    /\ pd_queue # <<>>
    /\ Cardinality(PdHeld) < Cardinality(Workers)
    /\ pd_taken' = IF pd_call.called THEN Append(pd_taken, Head(pd_queue)) ELSE pd_taken
    /\ pd_queue' = Tail(pd_queue)
    /\ UNCHANGED <<pd_cached, pd_active, pd_call>>

\* _execute_download is through with the task of id v: the file is cached or
\* the task has failed, the finally clause removes the id from active_downloads
PdFinish(v, ok) ==
    /\ v \in PdHeld
    /\ pd_active' = pd_active \ {v}
    /\ pd_cached' = IF ok THEN pd_cached \cup {v} ELSE pd_cached
    /\ UNCHANGED <<pd_queue, pd_taken, pd_call>>

notPlaylistDl == <<cacheVars, dlVars, scVars, plVars, stVars, gnVars, auVars, adVars, orVars,
                   rgVars, mpVars, seVars, dyVars, nvVars, vfVars, tgVars>>

NextPlaylistDl ==
    \/ \E video_ids \in VideoIdLists, c \in CurrentIndexes :
          PdDownloadPlaylist(video_ids, c) /\ UNCHANGED notPlaylistDl
    \/ PdWorkerGet /\ UNCHANGED notPlaylistDl
    \/ \E v \in {Tracks[i] : i \in DOMAIN Tracks}, ok \in BOOLEAN :
          PdFinish(v, ok) /\ UNCHANGED notPlaylistDl

SpecPlaylistDl == Init /\ [][NextPlaylistDl]_vars

\* ids[c], ids[c+1], ids[c+2], then the remaining ids in list order
PriorityOrder(ids, c) ==
    SubSeq(ids, c + 1, Min(c + 3, Len(ids))) \o SubSeq(ids, 1, c)
        \o SubSeq(ids, c + 4, Len(ids))

NewMaxValues == {1, 3}

\* async with self.download_semaphore, entry: the attribute is read once, the
\* worker waits for a permit of that semaphore
SemAcquire(w) ==
    /\ wpc[w] = "fetched"
    /\ wsem[w] = None
    /\ semaphores[download_semaphore] > 0
    /\ semaphores' = [semaphores EXCEPT ![download_semaphore] = @ - 1]
    /\ wsem' = [wsem EXCEPT ![w] = download_semaphore]
    /\ UNCHANGED <<max_parallel, download_semaphore>>

\* async with self.download_semaphore, exit: when _execute_download has
\* returned the permit goes back to the semaphore it was taken from
SemRelease(w) ==
    /\ IF wpc'[w] = "idle"
       THEN /\ semaphores' = [semaphores EXCEPT ![wsem[w]] = @ + 1]
            /\ wsem' = [wsem EXCEPT ![w] = None]
       ELSE UNCHANGED <<semaphores, wsem>>
    /\ UNCHANGED <<max_parallel, download_semaphore>>

\* _execute_download runs inside the async with block
Holding(w) == wsem[w] # None

notParallel == <<scVars, plVars, stVars, gnVars, auVars, adVars, orVars, rgVars, seVars,
                 dyVars, pdVars, nvVars, vfVars, tgVars>>

NextParallel ==
    \/ \E v \in DlIds : DownloadVideo(v) /\ UNCHANGED <<mpVars, notParallel>>
    \/ \E w \in Workers : WorkerGet(w) /\ UNCHANGED <<mpVars, notParallel>>
    \/ \E w \in Workers : SemAcquire(w) /\ UNCHANGED <<cacheVars, dlVars, notParallel>>
    \/ \E w \in Workers :
          Holding(w) /\ WorkerStart(w) /\ SemRelease(w) /\ UNCHANGED notParallel
    \/ \E w \in Workers :
          Holding(w) /\ DownloadSucceed(w, Estimate) /\ SemRelease(w) /\ UNCHANGED notParallel
    \/ \E w \in Workers :
          Holding(w) /\ DownloadError(w) /\ SemRelease(w) /\ UNCHANGED notParallel
    \/ \E w \in Workers :
          Holding(w) /\ DownloadTimeout(w) /\ SemRelease(w) /\ UNCHANGED notParallel
    \/ \E w \in Workers :
          Holding(w) /\ BackoffDone(w) /\ SemRelease(w) /\ UNCHANGED notParallel
    \/ \E new_max \in NewMaxValues :
          update_max_parallel(new_max) /\ UNCHANGED <<cacheVars, dlVars, notParallel>>

SpecParallel == Init /\ [][NextParallel]_vars

\* the tasks in DOWNLOADING
Downloading == {t \in DOMAIN tasks : tasks[t].status = "downloading"}

\* C26: at every instant the number of tasks in DOWNLOADING is at most the
\* configured max_parallel, whatever update_max_parallel calls were made while
\* downloads were queued or in flight.
C26_ConcurrencyCap == Cardinality(Downloading) <= max_parallel

(***************************************************************************)
(* Properties of the retries of a download                                 *)
(***************************************************************************)
\* worker w leaves _execute_download with its task put back on the queue
Requeued(w) ==
    /\ wtask[w] # None
    /\ wpc'[w] = "idle"
    /\ download_queue' = Append(download_queue, wtask[w])

\* C27: every re-queue of a download task, whether its attempt ended by an
\* error or by a timeout, comes after the backoff sleep of that attempt.
C27_BackoffBeforeRequeue ==
    [][\A w \in Workers : Requeued(w) => wpc[w] = "backoff"]_vars

(***************************************************************************)
(* Navigation of the scraper (scraper.py _navigate_to_url)                 *)
(***************************************************************************)
MAX_RETRIES == 7
RETRY_DELAY == 10
MaxRetryWait == 300
MaxGotos == 9                   \* page.goto calls of one navigation
RetryAfters == {1, 30, 120}     \* the retry-after header of a 429 response

\* what one page.goto and the checks after it come to: the content, a
\* Cloudflare challenge that is solved or not, a 429 response, an exception
\* (a timeout is one)
Responses == {"ok", "cloudflare_solved", "cloudflare_failed", "429", "error"}

\* wait_time = min(config.RETRY_DELAY * (2 ** retry), 300)
wait_time(retry) == Min(RETRY_DELAY * 2^retry, MaxRetryWait)

\* the scraper calls _navigate_to_url(url, params), retry = 0
NavStart ==
    /\ nav_pc \in {"idle", "returned"}
    /\ nav_pc' = "goto"
    /\ nav_retry' = 0
    /\ nav_attempts' = 0
    /\ nav_sleep' = NoSleep
    /\ nav_result' = "none"

NavReturn(result) ==
    /\ nav_pc' = "returned"
    /\ nav_result' = result
    /\ nav_sleep' = NoSleep
    /\ UNCHANGED nav_retry

NavSleep(cause, seconds) ==
    /\ nav_pc' = "sleep"
    /\ nav_sleep' = [cause |-> cause, seconds |-> seconds]
    /\ UNCHANGED <<nav_retry, nav_result>>

\* one pass of the try block of the invocation with argument retry
NavGoto(resp, retry_after) ==
    /\ nav_pc = "goto"
    /\ nav_attempts < MaxGotos
    /\ nav_attempts' = nav_attempts + 1
    /\ CASE resp \in {"ok", "cloudflare_solved"} -> NavReturn("content")
         [] resp = "cloudflare_failed" -> NavReturn("None")
         [] resp = "429" -> NavSleep("429", retry_after)
         [] resp = "error" ->
                IF nav_retry < MAX_RETRIES
                THEN NavSleep("error", wait_time(nav_retry))
                ELSE NavReturn("None")

\* the sleep is over: return await self._navigate_to_url(url, params, retry + 1)
NavSleepDone ==
    /\ nav_pc = "sleep"
    /\ nav_pc' = "goto"
    /\ nav_retry' = nav_retry + 1
    /\ nav_sleep' = NoSleep
    /\ UNCHANGED <<nav_attempts, nav_result>>

notNavigate == <<cacheVars, dlVars, scVars, plVars, stVars, gnVars, auVars, adVars, orVars,
                 rgVars, mpVars, seVars, dyVars, pdVars, vfVars, tgVars>>

NextNavigate ==
    \/ NavStart /\ UNCHANGED notNavigate
    \/ \E resp \in Responses, retry_after \in RetryAfters :
          NavGoto(resp, retry_after) /\ UNCHANGED notNavigate
    \/ NavSleepDone /\ UNCHANGED notNavigate

SpecNavigate == Init /\ [][NextNavigate]_vars

\* C29: whatever the server answers (errors, timeouts, HTTP 429), one
\* navigation makes at most MAX_RETRIES + 1 attempts, and the sleep before a
\* retry after an error lasts min(RETRY_DELAY * 2^attempt, 300) seconds.
C29_RetryBudget ==
    /\ nav_attempts <= MAX_RETRIES + 1
    /\ nav_sleep.cause = "error" =>
           nav_sleep.seconds = Min(RETRY_DELAY * 2^(nav_attempts - 1), MaxRetryWait)

(***************************************************************************)
(* Batch verification (batch_verifier.py, platform_verifier.py)            *)
(***************************************************************************)
StrictSimilarity == 90
MaxCandidates == 2              \* search results of one query
Scores == {74, 75, 76, 89, 90, 91, 100, 110}    \* scores before the cap at 100
MinSimilarities == {75, 90}     \* the pipeline's bulk call, the other callers

Candidates == UNION {[1..n -> Scores] : n \in 0..MaxCandidates}

RECURSIVE MaxOf(_)
MaxOf(q) ==
    IF Len(q) = 1 THEN q[1]
    ELSE LET m == MaxOf(Tail(q)) IN IF q[1] >= m THEN q[1] ELSE m

\* search_youtube_directly on results with the given scores, every one with an
\* id its URL yields: the matches are the results with score >= min_similarity,
\* the best of them is returned with its score capped at 100
search_youtube_directly(scores, min_similarity) ==
    LET matches == SelectSeq(scores, LAMBDA sc : sc >= min_similarity)
    IN  IF matches = <<>> THEN [found |-> FALSE, match_score |-> 0]
        ELSE [found |-> TRUE, match_score |-> Min(MaxOf(matches), 100)]

\* verify_album(album, min_similarity): the search is made with 90 whatever
\* min_similarity is
verify_album(scores, min_similarity) ==
    search_youtube_directly(scores, StrictSimilarity)

\* verify_albums_batch: result = await self.verify_album(album, min_similarity)
VerifyAlbumsBatch(scores, min_similarity) ==
    /\ last_verify' = [called |-> TRUE, scores |-> scores,
                    min_similarity |-> min_similarity,
                    youtube |-> verify_album(scores, min_similarity)]
    /\ UNCHANGED <<last_score, vaVars>>

notVerify == <<cacheVars, dlVars, scVars, plVars, stVars, gnVars, auVars, adVars, orVars,
               rgVars, mpVars, seVars, dyVars, pdVars, nvVars, tgVars>>

NextVerify ==
    \E scores \in Candidates, min_similarity \in MinSimilarities :
        VerifyAlbumsBatch(scores, min_similarity) /\ UNCHANGED notVerify

SpecVerify == Init /\ [][NextVerify]_vars

\* C30: in batch verification a candidate is accepted if and only if its score
\* is at least the min_similarity the caller passed (75 from the pipeline's bulk
\* call, 90 otherwise); a score equal to the threshold is accepted.
C30_Threshold ==
    last_verify.called =>
        (last_verify.youtube.found
            <=> \E i \in DOMAIN last_verify.scores :
                    last_verify.scores[i] >= last_verify.min_similarity)

(***************************************************************************)
(* The score of a search result (platform_verifier.py)                     *)
(***************************************************************************)
BothPresent == 70
FullAlbumBoost == 10
ScoreCap == 100
FuzzValues == {0, 69, 70, 71, 85, 100}  \* values of the fuzz ratios (0..100)
Boosts == {0, FullAlbumBoost}           \* 'full album' in the title or not

Max(a, b) == IF a > b THEN a ELSE b

\* the score of a result before the cap: both ratios above 70, or not
result_score(full_score, album_score, band_score, boost) ==
    IF band_score > BothPresent /\ album_score > BothPresent
    THEN Max(full_score, (album_score + band_score) \div 2) + boost
    ELSE Max(full_score, album_score) + boost

\* the same with the comparisons >= 70
result_score_ge(full_score, album_score, band_score, boost) ==
    IF band_score >= BothPresent /\ album_score >= BothPresent
    THEN Max(full_score, (album_score + band_score) \div 2) + boost
    ELSE Max(full_score, album_score) + boost

\* search_youtube_directly for a query with one result
ScoreResult(full_score, album_score, band_score, boost, min_similarity) ==
    /\ last_score' =
           [called |-> TRUE, full |-> full_score, album |-> album_score,
            band |-> band_score, boost |-> boost,
            result |-> search_youtube_directly(
                           <<result_score(full_score, album_score, band_score, boost)>>,
                           min_similarity)]
    /\ UNCHANGED <<last_verify, vaVars>>

NextScore ==
    \E full_score, album_score, band_score \in FuzzValues, boost \in Boosts,
       min_similarity \in MinSimilarities :
        ScoreResult(full_score, album_score, band_score, boost, min_similarity)
            /\ UNCHANGED notVerify

SpecScore == Init /\ [][NextScore]_vars

\* C31: the score reported for a candidate is
\* min(100, (max(full, (album+band)/2) if band >= 70 and album >= 70
\*           else max(full, album)) + boost).
C31_ScoreFormula ==
    last_score.called /\ last_score.result.found =>
        last_score.result.match_score
            = Min(ScoreCap, result_score_ge(last_score.full, last_score.album,
                                            last_score.band, last_score.boost))

(***************************************************************************)
(* The retries of verify_album (batch_verifier.py)                         *)
(***************************************************************************)
max_retries == 2
MaxBatchAlbums == 3             \* albums of one batch

\* verify_albums_batch: result = await self.verify_album(album, min_similarity)
VaCall ==
    /\ va_pc \in {"idle", "returned"}
    /\ vb_done < MaxBatchAlbums
    /\ va_pc' = "try"
    /\ va_attempt' = 0
    /\ va_result' = NoResult
    /\ va_tries' = 1
    /\ UNCHANGED vb_done

\* return result; the batch appends it and goes on
VaReturn(result) ==
    /\ va_pc' = "returned"
    /\ va_result' = result
    /\ vb_done' = vb_done + 1
    /\ UNCHANGED <<va_attempt, va_tries>>

\* except Exception as e of the retry loop, e of a connection class or not
VaExcept(result, connection) ==
    IF connection /\ va_attempt < max_retries
    THEN /\ va_pc' = "restart"
         /\ va_result' = result
         /\ UNCHANGED <<va_attempt, va_tries, vb_done>>
    ELSE VaReturn([result EXCEPT !.error = TRUE])

\* the two searches of one pass: the video search finds a match, or none, or a
\* connection error is raised again by the inner handler; the other search
\* never sets result['bandcamp'].  success is computed from result, which
\* keeps the match of an earlier pass
VaTry(outcome) ==
    LET found == [va_result EXCEPT !.youtube = TRUE]
        res == IF outcome = "found" THEN [found EXCEPT !.success = TRUE]
               ELSE [va_result EXCEPT !.success = va_result.youtube]
    IN  /\ va_pc = "try"
        /\ CASE outcome = "raised" -> VaExcept(va_result, TRUE)
             [] res.success -> /\ va_pc' = "db"
                               /\ va_result' = res
                               /\ UNCHANGED <<va_attempt, va_tries, vb_done>>
             [] OTHER -> VaReturn(res)

\* self.db.update_album_playable_urls(...): it returns or raises
VaDb(outcome) ==
    /\ va_pc = "db"
    /\ IF outcome = "ok" THEN VaReturn(va_result)
       ELSE VaExcept(va_result, outcome = "connection")

\* await self.restart_browser(): next pass of the loop, or the restart fails
VaRestart(ok) ==
    /\ va_pc = "restart"
    /\ IF ok
       THEN /\ va_pc' = "try"
            /\ va_attempt' = va_attempt + 1
            /\ va_tries' = va_tries + 1
            /\ UNCHANGED <<va_result, vb_done>>
       ELSE VaReturn([va_result EXCEPT !.error = TRUE])

NextVerifyAlbum ==
    \/ VaCall /\ UNCHANGED <<last_verify, last_score, notVerify>>
    \/ \E outcome \in {"found", "none", "raised"} :
          VaTry(outcome) /\ UNCHANGED <<last_verify, last_score, notVerify>>
    \/ \E outcome \in {"ok", "connection", "other"} :
          VaDb(outcome) /\ UNCHANGED <<last_verify, last_score, notVerify>>
    \/ \E ok \in BOOLEAN :
          VaRestart(ok) /\ UNCHANGED <<last_verify, last_score, notVerify>>

SpecVerifyAlbum == Init /\ [][NextVerifyAlbum]_vars

\* C32: verify_album makes at most max_retries + 1 attempts; it retries only
\* after a connection-class failure and a rebuilt browser; an album that ends
\* with an error (not of the connection class, or a failed rebuild) ends as
\* failed, and the batch goes on with the next album.
C32_RetryBound ==
    /\ va_tries <= max_retries + 1
    /\ va_pc = "returned" /\ va_result.error => ~va_result.success

(***************************************************************************)
(* Stopping the download workers (youtube_download_manager.py)             *)
(***************************************************************************)
\* the ids whose _execute_download is cut by the cancellation: its finally
\* clause runs, no except clause does (CancelledError is not an Exception)
CutIds == {tasks[wtask[w]].video_id : w \in {x \in Workers : wpc[x] \in {"downloading", "backoff"}}}

\* stop_workers: running = False, every worker task is cancelled and awaited
StopWorkers ==
    /\ \E w \in Workers : wpc[w] # "stopped"
    /\ wpc' = [w \in Workers |-> "stopped"]
    /\ wtask' = [w \in Workers |-> None]
    /\ active_downloads' = [v \in DlIds |-> IF v \in CutIds THEN None ELSE active_downloads[v]]
    /\ last_cleanup' = NoCleanup
    /\ NoCount
    /\ UNCHANGED <<metadata, files, max_size, now, tasks, download_queue>>

NextShutdown ==
    \/ \E v \in DlIds : DownloadVideo(v) /\ UNCHANGED <<scVars, plVars, restVars>>
    \/ \E w \in Workers : WorkerGet(w) /\ UNCHANGED <<scVars, plVars, restVars>>
    \/ \E w \in Workers : WorkerStart(w) /\ UNCHANGED <<scVars, plVars, restVars>>
    \/ \E w \in Workers : DownloadSucceed(w, Estimate) /\ UNCHANGED <<scVars, plVars, restVars>>
    \/ \E w \in Workers : DownloadError(w) /\ UNCHANGED <<scVars, plVars, restVars>>
    \/ \E w \in Workers : DownloadTimeout(w) /\ UNCHANGED <<scVars, plVars, restVars>>
    \/ \E w \in Workers : BackoffDone(w) /\ UNCHANGED <<scVars, plVars, restVars>>
    \/ StopWorkers /\ UNCHANGED <<scVars, plVars, restVars>>

SpecShutdown == Init /\ [][NextShutdown]_vars

\* C33: stopping the workers does not cancel a download in flight: a task in
\* DOWNLOADING is still being run by a worker, which takes it to COMPLETED or
\* FAILED.
C33_InFlightNotCancelled ==
    \A t \in DOMAIN tasks :
        tasks[t].status = "downloading"
            => \E w \in Workers : wpc[w] = "downloading" /\ wtask[w] = t

(***************************************************************************)
(* The download timeout a worker runs with                                 *)
(***************************************************************************)
\* _execute_download reaches asyncio.wait_for(..., timeout=self.download_timeout)
TimedDownloadStart(w) ==
    /\ run_timeout[w] = None
    /\ run_timeout' = [run_timeout EXCEPT ![w] = download_timeout]
    /\ UNCHANGED <<stored_settings, last_update, download_timeout>>

\* the wait is over, by a result, an error or the timeout
TimedDownloadEnd(w) ==
    /\ run_timeout[w] # None
    /\ run_timeout' = [run_timeout EXCEPT ![w] = None]
    /\ UNCHANGED <<stored_settings, last_update, download_timeout>>

NextTimeout ==
    \/ \E req \in SettingsRequests : UpdateCacheSettings(req) /\ UNCHANGED notSettings
    \/ \E w \in Workers :
          TimedDownloadStart(w) /\ UNCHANGED <<cacheVars, mpVars, notSettings>>
    \/ \E w \in Workers :
          TimedDownloadEnd(w) /\ UNCHANGED <<cacheVars, mpVars, notSettings>>

SpecTimeout == Init /\ [][NextTimeout]_vars

\* C34: once a valid youtube_download_timeout is stored, every download a
\* worker starts afterwards runs with that timeout; a download in flight keeps
\* the timeout it started with.
C34_TimeoutHotReload ==
    [][\A w \in Workers :
          /\ run_timeout[w] = None /\ run_timeout'[w] # None
                 /\ stored_settings.youtube_download_timeout # Absent
             => run_timeout'[w] = stored_settings.youtube_download_timeout
          /\ run_timeout[w] # None /\ run_timeout'[w] # None
             => run_timeout'[w] = run_timeout[w]]_vars

(***************************************************************************)
(* The answer to a scrape request (web_server.py trigger_scrape)           *)
(***************************************************************************)
notTrigger == <<cacheVars, dlVars, plVars, stVars, gnVars, auVars, adVars, orVars, rgVars,
                mpVars, seVars, dyVars, pdVars, nvVars, vfVars>>

\* the request of the step, with what it found
Triggered(d, force) ==
    last_trigger' = [called |-> TRUE, date |-> d, force |-> force,
                     exists |-> d \in db_dates, in_progress |-> scrape_in_progress,
                     runs |-> Len(runs)]

NextTrigger ==
    \/ \E d \in Dates, f \in BOOLEAN :
          TriggerScrape(d, TRUE, f) /\ Triggered(d, f) /\ UNCHANGED notTrigger
    \/ StopScraping /\ last_trigger' = NoTrigger /\ UNCHANGED notTrigger
    \/ \E r \in DOMAIN runs : RunStart(r) /\ last_trigger' = NoTrigger /\ UNCHANGED notTrigger
    \/ \E r \in DOMAIN runs, outcome \in InitOutcomes :
          RunInitialised(r, outcome) /\ last_trigger' = NoTrigger /\ UNCHANGED notTrigger
    \/ \E r \in DOMAIN runs : PageFailed(r) /\ last_trigger' = NoTrigger /\ UNCHANGED notTrigger
    \/ \E r \in DOMAIN runs, n \in 0..MaxAlbums :
          RunScraped(r, n) /\ last_trigger' = NoTrigger /\ UNCHANGED notTrigger
    \/ \E r \in DOMAIN runs : RunCover(r) /\ last_trigger' = NoTrigger /\ UNCHANGED notTrigger
    \/ \E r \in DOMAIN runs : RunClosed(r) /\ last_trigger' = NoTrigger /\ UNCHANGED notTrigger
    \/ \E r \in DOMAIN runs, ok \in BOOLEAN :
          RunVerified(r, ok) /\ last_trigger' = NoTrigger /\ UNCHANGED notTrigger
    \/ \E r \in DOMAIN runs : RunQueued(r) /\ last_trigger' = NoTrigger /\ UNCHANGED notTrigger
    \/ \E r \in DOMAIN runs : RunFailed(r) /\ last_trigger' = NoTrigger /\ UNCHANGED notTrigger

SpecTrigger == Init /\ [][NextTrigger]_vars

\* C35: a scrape request without force_rescrape for a date that has album rows
\* is answered with 409, schedules no run and changes no state; with
\* force_rescrape, and no run in progress, it is accepted.
C35_AlreadyScraped ==
    [][/\ last_trigger'.called /\ last_trigger'.exists /\ ~last_trigger'.force
          => /\ last_response' = 409
             /\ UNCHANGED <<scraping_status, scraping_lock, runs, db_dates, run_report>>
       /\ last_trigger'.called /\ last_trigger'.exists /\ last_trigger'.force
              /\ ~last_trigger'.in_progress
          => /\ last_response' = 200
             /\ Len(runs') = Len(runs) + 1
             /\ runs'[Len(runs')].date = last_trigger'.date
             /\ runs'[Len(runs')].pc = "scheduled"]_vars

\* C35 witness: with no run in progress, a request without force for a scraped
\* date has been answered with 409
C35_Witness ==
    /\ last_trigger.called /\ last_trigger.exists /\ ~last_trigger.force
    /\ ~last_trigger.in_progress
    /\ last_response = 409
    /\ Len(runs) = last_trigger.runs

\* C35 witness of the forced request: it was accepted for a scraped date
C35_WitnessForced ==
    /\ last_trigger.called /\ last_trigger.exists /\ last_trigger.force
    /\ last_response = 200

(***************************************************************************)
(* Start of the cache manager (youtube_cache_manager.py __init__)          *)
(***************************************************************************)
\* the record of the orphan cleanup of __init__; called is kept for the
\* cleanups of cleanup_if_needed
StartupCleanup == [called |-> FALSE, startup |-> TRUE]

\* the process ends between the download and add_file: the file stays, no
\* metadata entry is written
OrphanFile(v, size) ==
    /\ files[v] = 0
    /\ v \notin MetaIds(metadata)
    /\ files' = [files EXCEPT ![v] = size]
    /\ last_cleanup' = NoCleanup
    /\ UNCHANGED <<metadata, max_size, now>>

\* clean_youtube_cache.py: a file older than the cutoff is unlinked, the
\* metadata file is not rewritten
CleanOldFile(v) ==
    /\ files[v] > 0
    /\ files' = [files EXCEPT ![v] = 0]
    /\ last_cleanup' = NoCleanup
    /\ UNCHANGED <<metadata, max_size, now>>

\* _cleanup_orphaned_files: orphaned = all_files - tracked_files
orphaned(m, f) == {v \in VideoIds : f[v] > 0 /\ v \notin MetaIds(m)}

\* __init__ of a new process: the metadata file is loaded, the orphaned files
\* are unlinked
CacheManagerInit ==
    /\ metadata' = metadata
    /\ files' = [v \in VideoIds |-> IF v \in orphaned(metadata, files) THEN 0 ELSE files[v]]
    /\ last_cleanup' = StartupCleanup
    /\ UNCHANGED <<max_size, now>>

NextCacheStart ==
    \/ \E v \in VideoIds, s \in Sizes : AddFile(v, s) /\ UNCHANGED <<dlVars, scVars, plVars, restVars>>
    \/ \E v \in VideoIds : CleanOldFile(v) /\ UNCHANGED <<dlVars, scVars, plVars, restVars>>
    \/ \E v \in VideoIds, s \in Sizes : OrphanFile(v, s) /\ UNCHANGED <<dlVars, scVars, plVars, restVars>>
    \/ CacheManagerInit /\ UNCHANGED <<dlVars, scVars, plVars, restVars>>

SpecCacheStart == Init /\ [][NextCacheStart]_vars

\* C36: after the cache manager is initialised the audio files of the cache
\* directory are the files the metadata records: orphan files are deleted and
\* entries whose file is missing are dropped.
C36_StartupReconciled ==
    last_cleanup = StartupCleanup =>
        {v \in VideoIds : files[v] > 0} = MetaIds(metadata)

(***************************************************************************)
(* Properties of an upsert over a verified album                           *)
(***************************************************************************)
PersistedIds == {last_persist.list[i].album_id : i \in DOMAIN last_persist.list}

\* C37: upserting an album replaces its whole row: afterwards the album is not
\* verified and its embed fields are null, also when it was verified before.
C37_UpsertDiscardsVerification ==
    last_persist.called =>
        \A r \in albums :
            r.album_id \in PersistedIds
                => /\ ~r.playable_verified
                   /\ r.youtube_embed_url = "NULL"
                   /\ r.bandcamp_embed_url = "NULL"

\* C37 witness: an album that was verified has been upserted
C37_Witness ==
    /\ last_persist.called
    /\ \E r \in albums : /\ r.album_id \in PersistedIds
                         /\ r.album_id \in last_persist.verified
                         /\ ~r.playable_verified

(***************************************************************************)
(* Properties of the failed-login counter                                  *)
(***************************************************************************)
\* C38: the failed-login counter goes down only by a successful login, not by
\* the expiry of the lock; once a lock has expired without a successful login
\* one more failed attempt locks the account again for 15 minutes.
C38_CounterSurvivesLock ==
    [][/\ login_attempts' < login_attempts
          => last_login'.status = 200 /\ last_login'.token /\ login_attempts' = 0
       /\ admin_set /\ AdminLogin(FALSE) /\ locked_until # None /\ auth_now >= locked_until
          => /\ login_attempts' = login_attempts + 1
             /\ locked_until' = auth_now + LockMinutes
             /\ last_login'.status = 423]_vars

\* C38 witness: the failure after the first lock has expired is recorded as the
\* 6th and has locked the account again
C38_Witness ==
    /\ login_attempts = LockThreshold + 1
    /\ locked_until = auth_now + LockMinutes
    /\ auth_now >= LockMinutes
    /\ last_login.status = 423

(***************************************************************************)
(* POST /api/youtube/queue with any current_index (web_server.py,          *)
(* youtube_download_manager.py)                                            *)
(***************************************************************************)
MaxIndex == 7

\* the values of the query parameter current_index: int
AnyIndexes == (0 - MaxIndex)..MaxIndex

\* video_ids[i] of a Python list of len items: the item at i for 0 <= i < len,
\* the item at len + i for -len <= i < 0, else IndexError (None)
list_index(len, i) ==
    IF 0 <= i /\ i < len THEN i + 1
    ELSE IF 0 - len <= i /\ i < 0 THEN len + i + 1
    ELSE None

\* the calls of download_video in the order of call_order, up to the first
\* subscript that raises IndexError; what was queued before it stays queued
RECURSIVE download_each_indexed(_, _, _)
download_each_indexed(st, video_ids, order) ==
    IF order = <<>> THEN st
    ELSE LET at == list_index(Len(video_ids), Head(order)) IN
         IF at = None THEN [st EXCEPT !.raised = TRUE]
         ELSE download_each_indexed(
                  [raised |-> FALSE] @@ download_video(st, video_ids[at]),
                  video_ids, Tail(order))

\* queue_youtube_download(video_ids, current_index): 400 for an empty list,
\* else download_playlist; an exception of it leaves the handler as a 500
QueueYoutubeDownload(video_ids, current_index) ==
    IF video_ids = <<>>
    THEN /\ pd_call' = [called |-> FALSE, status |-> 400]
         /\ UNCHANGED <<pd_cached, pd_active, pd_queue, pd_taken>>
    ELSE LET st == download_each_indexed(
                       [active |-> pd_active, queue |-> pd_queue, raised |-> FALSE],
                       video_ids, call_order(Len(video_ids), current_index)) IN
         /\ pd_active' = st.active
         /\ pd_queue' = st.queue
         /\ pd_call' = [called |-> FALSE, status |-> IF st.raised THEN 500 ELSE 200]
         /\ UNCHANGED <<pd_cached, pd_taken>>

NextQueue ==
    \/ \E video_ids \in VideoIdLists \cup {<<>>}, c \in AnyIndexes :
          QueueYoutubeDownload(video_ids, c) /\ UNCHANGED notPlaylistDl
    \/ PdWorkerGet /\ UNCHANGED notPlaylistDl
    \/ \E v \in {Tracks[i] : i \in DOMAIN Tracks}, ok \in BOOLEAN :
          PdFinish(v, ok) /\ UNCHANGED notPlaylistDl

SpecQueue == Init /\ [][NextQueue]_vars

\* the queued tasks of id v
QueuedTasks(queue, v) == {i \in DOMAIN queue : queue[i] = v}

\* C39: for every non-empty id list and every integer current_index the call
\* returns without error, and after it every id of the list is cached or has
\* exactly one pending task.
C39_AnyIndexQueues ==
    [][\A video_ids \in VideoIdLists, c \in AnyIndexes :
           QueueYoutubeDownload(video_ids, c)
               => /\ pd_call'.status = 200
                  /\ \A i \in DOMAIN video_ids :
                         \/ video_ids[i] \in pd_cached'
                         \/ /\ video_ids[i] \in pd_active'
                            /\ Cardinality(QueuedTasks(pd_queue', video_ids[i])) <= 1]_vars

(***************************************************************************)
(* Termination of the scrape runs (web_server.py)                          *)
(***************************************************************************)
\* the next step of the background task of run r: the event loop resumes it
\* once the lock it waits for is free or the call it awaits has returned or
\* raised
RunStep(r) ==
    /\ r \in DOMAIN runs
    /\ \/ RunStart(r)
       \/ \E outcome \in InitOutcomes : RunInitialised(r, outcome)
       \/ \E n \in 0..MaxAlbums : RunScraped(r, n)
       \/ RunCover(r)
       \/ RunClosed(r)
       \/ \E ok \in BOOLEAN : RunVerified(r, ok)
       \/ RunQueued(r)
       \/ RunFailed(r)
    /\ UNCHANGED notScrape

\* the event loop runs every task that is ready, asyncio.Lock wakes its
\* waiters when it is released, and every awaited call returns or raises
NextRuns ==
    \/ TriggerScrape("d1", TRUE, TRUE) /\ UNCHANGED notScrape
    \/ StopScraping /\ UNCHANGED notScrape
    \/ \E r \in 1..MaxRuns : RunStep(r)

SpecScrapeFair ==
    /\ Init
    /\ [][NextRuns]_vars
    /\ \A r \in 1..MaxRuns : WF_vars(RunStep(r))

\* C40: every accepted scrape run eventually finishes with is_running false
\* and the scraping lock released, whatever step fails or is stopped; in every
\* state where is_running is false should_stop is false; a stop request made
\* while nothing is running gets 400 and leaves the progress report as it is.
C40_RunsFinish ==
    /\ \A r \in 1..MaxRuns :
           (r \in DOMAIN runs)
               ~> (/\ r \in DOMAIN runs
                   /\ runs[r].pc = "done"
                   /\ ~scraping_status.is_running
                   /\ scraping_lock = None)
    /\ [](~scraping_status.is_running => ~scraping_status.should_stop)
    /\ [][(StopScraping /\ ~scraping_status.is_running)
              => (last_response' = 400 /\ scraping_status' = scraping_status)]_vars

\* C40 witness: a run that was stopped has finished, the lock is free and a stop
\* request after it was rejected
C40_Witness ==
    /\ \E r \in DOMAIN runs : runs[r].pc = "done"
    /\ Unfinished = {}
    /\ scraping_status.error = "stopped"
    /\ ~scraping_status.is_running
    /\ ~scraping_status.should_stop
    /\ scraping_lock = None
    /\ last_response = 400

====
